---- MODULE Spec2Model ----
(***************************************************************************)
(* roborev: the job queue / review store (internal/storage), the worker    *)
(* pool (internal/daemon) that claims jobs, runs an agent and records the  *)
(* result, the Ollama agent (internal/agent), the daemon's single-instance *)
(* protocol and the terminal client (cmd/roborev-tui).                     *)
(*                                                                         *)
(* The specifications share the variables:                                 *)
(*   SpecStore    any sequence of direct calls of the store API            *)
(*                (EnqueueJob, ClaimJob, CompleteJob, FailJob);            *)
(*   SpecComments SpecStore with AddCommentToJob and the cancel of a job;  *)
(*   SpecEnqueue  EnqueueJob with any repo and commit id, and ClaimJob;    *)
(*   SpecClaim    goroutines racing in ClaimJob;                           *)
(*   Spec         the worker pool: NumWorkers goroutines running           *)
(*                WorkerPool.worker against the store, the control plane   *)
(*                enqueuing jobs, and WorkerPool.Stop;                     *)
(*   FairSpec     Spec with weak fairness on every goroutine's steps;      *)
(*   SpecRepos    goroutines racing in GetOrCreateRepo;                    *)
(*   SpecCommits  goroutines racing in GetOrCreateCommit;                  *)
(*   SpecAgents   WithModel, WithReasoning, WithAgentic on OllamaAgents;   *)
(*   SpecStream   OllamaAgent.parseStream on any body and output;          *)
(*   SpecReview   OllamaAgent.Review against any server behaviour;         *)
(*   SpecResolve  ResolveOllamaBaseURL under any configuration and         *)
(*                environment;                                             *)
(*   SpecDaemon   daemon processes running the startup protocol;           *)
(*   SpecTui      the terminal client's Update under any messages.         *)
(***************************************************************************)
EXTENDS Integers, Sequences, FiniteSets, TLC

\* ------------------------------------------------------------------ bounds
NumWorkers == 2
MaxJobs == 2
MaxTime == 1
MaxFaults == 1
MaxComments == 2
NumClients == 2
MaxAgents == 3
MaxLines == 4
MaxMalformed == 6
NumDaemons == 2
MaxListed == 3
MaxScroll == 2
MaxPending == 2

\* --------------------------------------------------------------- constants
\* SQL NULL in a timestamp column (sql.NullString with Valid = false).
NullTime == -1
\* SQL NULL in review_jobs.worker_id; also "no job" in a worker's locals.
None == 0
\* SQL NULL in review_jobs.error.
NullError == <<>>

\* The worker id a direct caller of ClaimJob passes ("test-worker").
Callers == {1}

\* Goroutines calling GetOrCreateRepo / GetOrCreateCommit at the same time.
Clients == 1..NumClients

\* A caller that is in no GetOrCreate call, and one that has none behind it.
Idle == [op |-> "idle"]
NoCall == [op |-> "none"]

\* Reasoning levels, with the one NewOllamaAgent sets.
ReasoningLevels == {"fast", "standard", "thorough"}
ReasoningStandard == "standard"

\* NewOllamaAgent(baseURL): the default URL for "", no model, standard
\* reasoning, not agentic, no HTTP client of its own.
NewOllamaAgent(baseURL) ==
    [BaseURL |-> IF baseURL = "" THEN "http://localhost:11434" ELSE baseURL,
     Model |-> "",
     Reasoning |-> ReasoningStandard,
     Agentic |-> FALSE,
     HTTPClient |-> None]

\* The repo and the commit every test creates before it enqueues a job; they
\* get the first id of their table.
TestRepoId == 1
TestCommitId == 1
TestRepo == [id |-> TestRepoId, rootPath |-> <<"tmp">>, name |-> "tmp"]
TestCommit ==
    [id |-> TestCommitId, repoId |-> TestRepoId, sha |-> "testsha123",
     author |-> "Test Author", subject |-> "Test commit", timestamp |-> 0]

\* Workers 1..NumWorkers stand for the goroutines worker(0)..worker(N-1);
\* the worker id string "worker-<i>" is represented by the number itself.
Workers == 1..NumWorkers

\* Names a job may carry in its agent column: one that is in the registry
\* and one that is not.
RegisteredAgents == {"test"}
AgentNames == {"test", "bogus"}

\* What an agent's Review call can return: an output and no error, or an
\* error.  The text is what the job's review / error column must carry.
AgentOutputs == {"LGTM"}
AgentErrors == {"test agent configured to fail"}

VARIABLES
    jobs,           \* table review_jobs: sequence indexed by id (1, 2, ...)
    reviews,        \* table reviews: sequence of rows
    comments,       \* table of comments: sequence of rows, in insertion order
    repos,          \* table repos: sequence indexed by id
    commits,        \* table commits: sequence indexed by id
    gpc,            \* gpc[c]: the GetOrCreate call caller c is in, between its
                    \* SELECT and its INSERT
    ret,            \* history: what caller c's last GetOrCreate call returned
    agents,         \* the OllamaAgent values allocated; a pointer is an index
    withRet,        \* history: the last With... call and the pointer it returned
    review,         \* the locals of the running OllamaAgent.Review call
    now,            \* the wall clock, in the seconds of the RFC3339 columns
    pc,             \* pc[w]: where goroutine worker(w) stands
    job,            \* job[w]: worker w's local variable job (an id)
    stale,          \* stale[w]: another write committed since w's SELECT
    activeWorkers,  \* WorkerPool.activeWorkers
    stopCh,         \* TRUE once wp.stopCh is closed
    stopPc,         \* where the caller of Stop stands
    wg,             \* WorkerPool.wg counter
    faults,         \* how many store calls of the workers have returned a store error
    claimCount,     \* history: how often ClaimJob returned each job id
    agentOut,       \* history: what the agent returned for each job id, and
                    \* whether stopCh was closed when it returned
    env,            \* the value of the environment variable OLLAMA_HOST
    resolved,       \* history: the last ResolveOllamaBaseURL call and its result
    handshake,      \* the handshake file ~/.roborev/daemon.json, NoFile if absent
    daemon,         \* daemon[d]: where daemon process d stands in its life
    tui             \* the Bubble Tea model of roborev-tui

vars == <<jobs, reviews, comments, repos, commits, gpc, ret, agents, withRet,
          review, now, pc, job, stale, activeWorkers,
          stopCh, stopPc, wg, faults, claimCount, agentOut,
          env, resolved, handshake, daemon, tui>>

storeVars == <<jobs, reviews, now, comments>>
catalogVars == <<repos, commits, gpc, ret>>
agentVars == <<agents, withRet, review>>
frontVars == <<env, resolved, handshake, daemon, tui>>
poolVars == <<pc, job, stale, activeWorkers, stopCh, stopPc, wg,
              claimCount, agentOut>>

JobIds == 1..MaxJobs

\* ------------------------------------------------------------ store: rows
\* A row as INSERT INTO review_jobs (repo_id, commit_id, agent, status)
\* leaves it: status queued, enqueued_at the insertion time, the nullable
\* columns NULL.
NewJob(repoId, commitId, agent, t) ==
    [repoId |-> repoId, commitId |-> commitId, agent |-> agent, status |-> "queued", enqueuedAt |-> t,
     startedAt |-> NullTime, finishedAt |-> NullTime,
     workerId |-> None, error |-> NullError]

\* A row of reviews.
NewReview(jobId, agent, prompt, output) ==
    [jobId |-> jobId, agent |-> agent, prompt |-> prompt, output |-> output]

ReviewsOf(rs, id) == {k \in DOMAIN rs : rs[k].jobId = id}

HasReview(rs, id) == ReviewsOf(rs, id) # {}

\* ------------------------------------------------------- store: ClaimJob
\* The same query with the WHERE clause lost: every row qualifies.
QueuedNoStatusFilter(js) == DOMAIN js

\* JOIN repos r ON r.id = j.repo_id JOIN commits c ON c.id = j.commit_id:
\* an inner join, a job row appears only with its repo and its commit.
Joined(j, rs, cs) ==
    /\ \E i \in 1..Len(rs) : rs[i].id = j.repoId
    /\ \E i \in 1..Len(cs) : cs[i].id = j.commitId

\* WHERE j.status = 'queued'
Queued(js) ==
    {i \in DOMAIN js : Joined(js[i], repos, commits) /\ js[i].status = "queued"}

\* ORDER BY j.enqueued_at LIMIT 1: the rows the query may return.  The
\* ORDER BY names enqueued_at alone, so among rows with the same
\* enqueued_at SQL leaves the choice of the first row open.
NextQueued(js) ==
    {i \in Queued(js) : \A k \in Queued(js) : js[i].enqueuedAt <= js[k].enqueuedAt}

\* The same UPDATE with the WHERE clause lost: every row is written.
ClaimUpdateAllRows(js, id, w, t) ==
    [k \in DOMAIN js |->
        [js[k] EXCEPT !.status = "running", !.workerId = w, !.startedAt = t]]

\* UPDATE review_jobs SET status = 'running', worker_id = ?, started_at = ?
\* WHERE id = ?
ClaimUpdate(js, id, w, t) ==
    [js EXCEPT ![id].status = "running", ![id].workerId = w, ![id].startedAt = t]

\* ---------------------------------------------------- store: CompleteJob
\* The same UPDATE with the finished_at column forgotten.
CompleteUpdateNoFinishedAt(js, id, t) ==
    IF id \in DOMAIN js
    THEN [js EXCEPT ![id].status = "done"]
    ELSE js

\* UPDATE review_jobs SET status = 'done', finished_at = ? WHERE id = ?
\* (no condition on the current status; no row, no change)
CompleteUpdate(js, id, t) ==
    IF id \in DOMAIN js
    THEN [js EXCEPT ![id].status = "done", ![id].finishedAt = t]
    ELSE js

\* reviews.job_id is unique: the INSERT fails when the job has a review.
InsertReviewFails(rs, id) == HasReview(rs, id)

\* The result of CompleteJob(jobID, agent, prompt, output) on tables js, rs
\* at time t: [ok, jobs, reviews].  dbOk = FALSE is a store error (Begin,
\* Exec or Commit returning an error); every error path leaves through the
\* deferred Rollback, so the tables are as before.
CompleteJobNoInsert(js, rs, id, agent, prompt, output, t, dbOk) ==
    IF ~dbOk
    THEN [ok |-> FALSE, jobs |-> js, reviews |-> rs]
    ELSE [ok |-> TRUE, jobs |-> CompleteUpdate(js, id, t), reviews |-> rs]

\* CompleteJob without the transaction: a failing INSERT returns its error
\* and the UPDATE before it stays.
CompleteJobNoRollback(js, rs, id, agent, prompt, output, t, dbOk) ==
    IF ~dbOk
    THEN [ok |-> FALSE, jobs |-> js, reviews |-> rs]
    ELSE IF InsertReviewFails(rs, id)
    THEN [ok |-> FALSE, jobs |-> CompleteUpdate(js, id, t), reviews |-> rs]
    ELSE [ok |-> TRUE,
          jobs |-> CompleteUpdate(js, id, t),
          reviews |-> Append(rs, NewReview(id, agent, prompt, output))]

CompleteJobResult(js, rs, id, agent, prompt, output, t, dbOk) ==
    IF ~dbOk \/ InsertReviewFails(rs, id)
    THEN [ok |-> FALSE, jobs |-> js, reviews |-> rs]
    ELSE [ok |-> TRUE,
          jobs |-> CompleteUpdate(js, id, t),
          reviews |-> Append(rs, NewReview(id, agent, prompt, output))]

\* -------------------------------------------------------- store: FailJob
\* UPDATE review_jobs SET status = 'failed', finished_at = ?, error = ?
\* WHERE id = ?   (no condition on the current status)
FailUpdate(js, id, msg, t) ==
    IF id \in DOMAIN js
    THEN [js EXCEPT ![id].status = "failed", ![id].finishedAt = t, ![id].error = msg]
    ELSE js

\* The result of FailJob(jobID, errorMsg): [ok, jobs].
FailJobResult(js, id, msg, t, dbOk) ==
    IF ~dbOk
    THEN [ok |-> FALSE, jobs |-> js]
    ELSE [ok |-> TRUE, jobs |-> FailUpdate(js, id, msg, t)]

\* The outcomes a store call of a worker can have: it works, or Begin, Exec
\* or Commit returns an error.  The store fails the pool at most MaxFaults
\* times, so that a store that fails for ever is not among the behaviours
\* the pool is checked against.
DbOutcomes == IF faults < MaxFaults THEN BOOLEAN ELSE {TRUE}

\* The outcomes of a direct call: it works or meets a store error.
CallOutcomes == BOOLEAN

Faulted(dbOk) == IF dbOk THEN faults ELSE faults + 1

\* A write that commits invalidates the snapshot of every ClaimJob
\* transaction that has read and not yet written.
Invalidate(w) ==
    [v \in Workers |-> IF v # w /\ pc[v] = "update" THEN TRUE ELSE stale[v]]

\* ------------------------------------------------- the state at process start
\* The daemon processes that are started; a process id is its number.
Daemons == 1..NumDaemons
\* A daemon process that has not been started: it has read no handshake
\* file, holds no port and has no exit code.
NoExit == -1
\* What reading the handshake file gives when there is no file.
NoFile == [pid |-> None, port |-> None, startedAt |-> NullTime]
NotStarted ==
    [pc |-> "off", seen |-> NoFile, port |-> None, exit |-> NoExit, why |-> ""]

\* initialModel(): no jobs, the queue view; every other field has its zero
\* value.  Beside the fields of the model, cmds counts the fetchReview
\* commands Update returned whose message has not come in, quit is set once
\* Update returned tea.Quit, and panicked once Update indexed jobs out of
\* range.
initialModel ==
    [jobs |-> <<>>, status |-> 0, selectedIdx |-> 0, currentView |-> "viewQueue",
     currentReview |-> None, reviewScroll |-> 0, width |-> 0, height |-> 0,
     err |-> "", cmds |-> 0, quit |-> FALSE, panicked |-> FALSE]

\* OLLAMA_HOST is not set, no daemon has been started, the terminal client
\* is as constructed.
InitFront ==
    /\ env = <<>>
    /\ resolved = NoCall
    /\ handshake = NoFile
    /\ daemon = [d \in Daemons |-> NotStarted]
    /\ tui = initialModel

\* ------------------------------------------------------------------ Init
\* A store holding the test's repo and commit and no job; NewWorkerPool and
\* Start have run: every worker stands at the top of its loop and the
\* WaitGroup counts them.
Init ==
    /\ jobs = <<>>
    /\ reviews = <<>>
    /\ comments = <<>>
    /\ repos = <<TestRepo>>
    /\ commits = <<TestCommit>>
    /\ gpc = [c \in Clients |-> Idle]
    /\ ret = [c \in Clients |-> NoCall]
    /\ agents = <<NewOllamaAgent("")>>
    /\ withRet = NoCall
    /\ review = Idle
    /\ now = 0
    /\ pc = [w \in Workers |-> "loop"]
    /\ job = [w \in Workers |-> None]
    /\ stale = [w \in Workers |-> FALSE]
    /\ activeWorkers = 0
    /\ stopCh = FALSE
    /\ stopPc = "running"
    /\ wg = NumWorkers
    /\ faults = 0
    /\ claimCount = [j \in JobIds |-> 0]
    /\ agentOut = [j \in JobIds |-> <<>>]
    /\ InitFront

\* Time passes.
Tick ==
    /\ now < MaxTime
    /\ now' = now + 1
    /\ UNCHANGED <<jobs, reviews, comments, faults>>
    /\ UNCHANGED <<catalogVars, agentVars, frontVars>>
    /\ UNCHANGED poolVars

\* EnqueueJob(repoID, commitID, agent), called by the control plane.
EnqueueJobCall(repoId, commitId, agent) ==
    /\ Len(jobs) < MaxJobs
    /\ jobs' = Append(jobs, NewJob(repoId, commitId, agent, now))
    /\ stale' = Invalidate(None)
    /\ UNCHANGED <<reviews, now, comments, faults>>
    /\ UNCHANGED <<catalogVars, agentVars, frontVars>>
    /\ UNCHANGED <<pc, job, activeWorkers, stopCh, stopPc, wg, claimCount, agentOut>>

\* The enqueue of the tests and of the control plane: the job of the repo and
\* the commit created just before.
EnqueueJob(agent) == EnqueueJobCall(TestRepoId, TestCommitId, agent)

\* ------------------------------------------------- direct store calls
\* ClaimJob(workerID) as one call: the SELECT and the UPDATE of one
\* transaction.  It returns id, or (nil, nil) for id = None when nothing is
\* queued, or an error (dbOk = FALSE) after which the Rollback leaves the
\* tables as they were.
ClaimJobCall(w, id, dbOk) ==
    /\ IF ~dbOk \/ NextQueued(jobs) = {}
       THEN /\ id = None
            /\ UNCHANGED <<jobs, claimCount>>
       ELSE /\ id \in NextQueued(jobs)
            /\ jobs' = ClaimUpdate(jobs, id, w, now)
            /\ claimCount' = [claimCount EXCEPT ![id] = @ + 1]
    /\ UNCHANGED <<reviews, now, comments>>
    /\ UNCHANGED <<catalogVars, agentVars, frontVars>>
    /\ UNCHANGED <<pc, job, stale, activeWorkers, stopCh, stopPc, wg, faults, agentOut>>

ClaimJob(w) == \E id \in JobIds \cup {None}, dbOk \in CallOutcomes : ClaimJobCall(w, id, dbOk)

\* The prompt built for a job (prompt.Builder.Build): a function of the job.
Prompt(id) == <<"prompt", id>>

\* CompleteJob(jobID, agent, prompt, output) called on an existing row.
CompleteJobCall(id, agent, output, dbOk) ==
    /\ id \in DOMAIN jobs
    /\ LET r == CompleteJobResult(jobs, reviews, id, agent, Prompt(id), output, now, dbOk)
       IN /\ jobs' = r.jobs
          /\ reviews' = r.reviews
    /\ UNCHANGED <<now, comments, faults>>
    /\ UNCHANGED <<catalogVars, agentVars, frontVars>>
    /\ UNCHANGED poolVars

CompleteJob(id) ==
    \E agent \in RegisteredAgents, output \in AgentOutputs, dbOk \in CallOutcomes :
        CompleteJobCall(id, agent, output, dbOk)

\* FailJob(jobID, errorMsg) called on an existing row.
FailJobCall(id, msg, dbOk) ==
    /\ id \in DOMAIN jobs
    /\ jobs' = FailJobResult(jobs, id, msg, now, dbOk).jobs
    /\ UNCHANGED <<reviews, now, comments, faults>>
    /\ UNCHANGED <<catalogVars, agentVars, frontVars>>
    /\ UNCHANGED poolVars

FailJob(id) ==
    \E text \in AgentErrors, dbOk \in CallOutcomes : FailJobCall(id, <<"agent", text>>, dbOk)

NextStore ==
    \/ Tick
    \/ \E agent \in RegisteredAgents : EnqueueJob(agent)
    \/ \E w \in Callers : ClaimJob(w)
    \/ \E id \in JobIds : CompleteJob(id)
    \/ \E id \in JobIds : FailJob(id)

SpecStore == Init /\ [][NextStore]_vars

\* ---------------------------------------------------------- worker pool
\* The loop without its select on stopCh: the worker always goes on to
\* ClaimJob.
WorkerLoopNoSelect(w) ==
    /\ pc[w] = "loop"
    /\ pc' = [pc EXCEPT ![w] = "claim"]
    /\ UNCHANGED storeVars
    /\ UNCHANGED <<catalogVars, agentVars, frontVars>>
    /\ UNCHANGED <<job, stale, activeWorkers, stopCh, stopPc, wg, faults, claimCount, agentOut>>

\* worker(id), top of the loop: the select on stopCh.  A closed channel is
\* ready, so the worker returns (wg.Done); otherwise the default case runs
\* and the worker goes on to ClaimJob.
WorkerLoop(w) ==
    /\ pc[w] = "loop"
    /\ IF stopCh
       THEN /\ pc' = [pc EXCEPT ![w] = "exited"]
            /\ wg' = wg - 1
       ELSE /\ pc' = [pc EXCEPT ![w] = "claim"]
            /\ UNCHANGED wg
    /\ UNCHANGED storeVars
    /\ UNCHANGED <<catalogVars, agentVars, frontVars>>
    /\ UNCHANGED <<job, stale, activeWorkers, stopCh, stopPc, faults, claimCount, agentOut>>

\* ClaimJob, first half: Begin and the SELECT.  No row: ClaimJob returns
\* (nil, nil), the worker sleeps 2 s and loops.  A store error: it returns
\* the error, the worker sleeps 5 s and loops.
ClaimJobSelect(w) ==
    /\ pc[w] = "claim"
    /\ \E dbOk \in DbOutcomes :
         /\ faults' = Faulted(dbOk)
         /\ IF ~dbOk \/ NextQueued(jobs) = {}
            THEN /\ pc' = [pc EXCEPT ![w] = "loop"]
                 /\ UNCHANGED <<job, stale>>
            ELSE \E id \in NextQueued(jobs) :
                   /\ job' = [job EXCEPT ![w] = id]
                   /\ stale' = [stale EXCEPT ![w] = FALSE]
                   /\ pc' = [pc EXCEPT ![w] = "update"]
    /\ UNCHANGED storeVars
    /\ UNCHANGED <<catalogVars, agentVars, frontVars>>
    /\ UNCHANGED <<activeWorkers, stopCh, stopPc, wg, claimCount, agentOut>>

\* The same step outside a transaction: the UPDATE is applied whatever was
\* written since the SELECT.
ClaimJobUpdateNoTx(w) ==
    /\ pc[w] = "update"
    /\ jobs' = ClaimUpdate(jobs, job[w], w, now)
    /\ claimCount' = [claimCount EXCEPT ![job[w]] = @ + 1]
    /\ stale' = Invalidate(w)
    /\ pc' = [pc EXCEPT ![w] = "claimed"]
    /\ UNCHANGED <<reviews, now, comments, faults>>
    /\ UNCHANGED <<catalogVars, agentVars, frontVars>>
    /\ UNCHANGED <<job, activeWorkers, stopCh, stopPc, wg, agentOut>>

\* ClaimJob, second half: the UPDATE and Commit.  The transaction read
\* before it writes; when another write has committed since its SELECT the
\* store refuses the write, ClaimJob returns the error and the deferred
\* Rollback ends the transaction.  Otherwise the row is claimed and
\* ClaimJob returns it.
ClaimJobUpdate(w) ==
    /\ pc[w] = "update"
    /\ IF stale[w]
       THEN /\ pc' = [pc EXCEPT ![w] = "loop"]
            /\ job' = [job EXCEPT ![w] = None]
            /\ stale' = [stale EXCEPT ![w] = FALSE]
            /\ UNCHANGED <<jobs, claimCount>>
       ELSE /\ jobs' = ClaimUpdate(jobs, job[w], w, now)
            /\ claimCount' = [claimCount EXCEPT ![job[w]] = @ + 1]
            /\ stale' = Invalidate(w)
            /\ pc' = [pc EXCEPT ![w] = "claimed"]
            /\ UNCHANGED job
    /\ UNCHANGED <<reviews, now, comments, faults>>
    /\ UNCHANGED <<catalogVars, agentVars, frontVars>>
    /\ UNCHANGED <<activeWorkers, stopCh, stopPc, wg, agentOut>>

\* activeWorkers.Add(1) and processJob up to the agent call: Build the
\* prompt, agent.Get(job.Agent).  A Build error or an unknown agent name
\* ends processJob with FailJob, whose error return is dropped.
ProcessJobStart(w) ==
    /\ pc[w] = "claimed"
    /\ activeWorkers' = activeWorkers + 1
    /\ \E buildOk \in BOOLEAN, dbOk \in DbOutcomes :
         IF ~buildOk
         THEN /\ jobs' = FailJobResult(jobs, job[w], <<"build prompt", "git">>, now, dbOk).jobs
              /\ faults' = Faulted(dbOk)
              /\ stale' = IF dbOk THEN Invalidate(w) ELSE stale
              /\ pc' = [pc EXCEPT ![w] = "finish"]
         ELSE IF jobs[job[w]].agent \notin RegisteredAgents
         THEN /\ jobs' = FailJobResult(jobs, job[w], <<"get agent", "unknown agent">>, now, dbOk).jobs
              /\ faults' = Faulted(dbOk)
              /\ stale' = IF dbOk THEN Invalidate(w) ELSE stale
              /\ pc' = [pc EXCEPT ![w] = "finish"]
         ELSE /\ dbOk
              /\ pc' = [pc EXCEPT ![w] = "review"]
              /\ UNCHANGED <<jobs, stale, faults>>
    /\ UNCHANGED <<reviews, now, comments>>
    /\ UNCHANGED <<catalogVars, agentVars, frontVars>>
    /\ UNCHANGED <<job, stopCh, stopPc, wg, claimCount, agentOut>>

\* a.Review returns (under the job's own context, which only its 10 minute
\* deadline cancels) and processJob stores the result: an error goes to
\* FailJob, whose error return is dropped; an output goes to CompleteJob,
\* whose error is logged and nothing else.
ProcessJobReview(w) ==
    /\ pc[w] = "review"
    /\ \E dbOk \in DbOutcomes :
         /\ faults' = Faulted(dbOk)
         /\ \/ \E text \in AgentErrors :
                 /\ agentOut' = [agentOut EXCEPT ![job[w]] = <<"error", text, stopCh>>]
                 /\ jobs' = FailJobResult(jobs, job[w], <<"agent", text>>, now, dbOk).jobs
                 /\ stale' = IF dbOk THEN Invalidate(w) ELSE stale
                 /\ UNCHANGED reviews
            \/ \E output \in AgentOutputs :
                 LET r == CompleteJobResult(jobs, reviews, job[w], jobs[job[w]].agent,
                                            Prompt(job[w]), output, now, dbOk)
                 IN /\ agentOut' = [agentOut EXCEPT ![job[w]] = <<"output", output, stopCh>>]
                    /\ jobs' = r.jobs
                    /\ reviews' = r.reviews
                    /\ stale' = IF r.ok THEN Invalidate(w) ELSE stale
    /\ pc' = [pc EXCEPT ![w] = "finish"]
    /\ UNCHANGED <<now, comments>>
    /\ UNCHANGED <<catalogVars, agentVars, frontVars>>
    /\ UNCHANGED <<job, activeWorkers, stopCh, stopPc, wg, claimCount>>

\* A worker that returns when processJob has: activeWorkers.Add(-1), then
\* the deferred wg.Done.
WorkerFinishReturns(w) ==
    /\ pc[w] = "finish"
    /\ activeWorkers' = activeWorkers - 1
    /\ pc' = [pc EXCEPT ![w] = "exited"]
    /\ wg' = wg - 1
    /\ job' = [job EXCEPT ![w] = None]
    /\ UNCHANGED storeVars
    /\ UNCHANGED <<catalogVars, agentVars, frontVars>>
    /\ UNCHANGED <<stale, stopCh, stopPc, faults, claimCount, agentOut>>

\* A worker that goes back to the top of its loop without
\* activeWorkers.Add(-1).
WorkerFinishKeepsCount(w) ==
    /\ pc[w] = "finish"
    /\ pc' = [pc EXCEPT ![w] = "loop"]
    /\ job' = [job EXCEPT ![w] = None]
    /\ UNCHANGED storeVars
    /\ UNCHANGED <<catalogVars, agentVars, frontVars>>
    /\ UNCHANGED <<stale, activeWorkers, stopCh, stopPc, wg, faults, claimCount, agentOut>>

\* processJob has returned: activeWorkers.Add(-1), back to the top of the
\* loop.
WorkerFinish(w) ==
    /\ pc[w] = "finish"
    /\ activeWorkers' = activeWorkers - 1
    /\ pc' = [pc EXCEPT ![w] = "loop"]
    /\ job' = [job EXCEPT ![w] = None]
    /\ UNCHANGED storeVars
    /\ UNCHANGED <<catalogVars, agentVars, frontVars>>
    /\ UNCHANGED <<stale, stopCh, stopPc, wg, faults, claimCount, agentOut>>

\* Stop: close(wp.stopCh).
StopClose ==
    /\ stopPc = "running"
    /\ stopCh' = TRUE
    /\ stopPc' = "waiting"
    /\ UNCHANGED storeVars
    /\ UNCHANGED <<catalogVars, agentVars, frontVars>>
    /\ UNCHANGED <<pc, job, stale, activeWorkers, wg, faults, claimCount, agentOut>>

\* Stop: wp.wg.Wait() returns once every worker has called Done.
StopReturn ==
    /\ stopPc = "waiting"
    /\ wg = 0
    /\ stopPc' = "returned"
    /\ UNCHANGED storeVars
    /\ UNCHANGED <<catalogVars, agentVars, frontVars>>
    /\ UNCHANGED <<pc, job, stale, activeWorkers, stopCh, wg, faults, claimCount, agentOut>>

Worker(w) ==
    \/ WorkerLoop(w)
    \/ ClaimJobSelect(w)
    \/ ClaimJobUpdate(w)
    \/ ProcessJobStart(w)
    \/ ProcessJobReview(w)
    \/ WorkerFinish(w)

Next ==
    \/ Tick
    \/ \E agent \in AgentNames : EnqueueJob(agent)
    \/ \E w \in Workers : Worker(w)
    \/ StopClose
    \/ StopReturn

Spec == Init /\ [][Next]_vars

\* The scheduler runs every goroutine that can take a step: weak fairness
\* on each worker and on the caller of Stop.  Nothing obliges the control
\* plane to enqueue, the clock to tick within the bound, or anyone to
\* call Stop.
FairSpec ==
    /\ Init
    /\ [][Next]_vars
    /\ \A w \in Workers : WF_vars(Worker(w))
    /\ WF_vars(StopReturn)

\* ------------------------------------------- concurrent ClaimJob callers
\* A caller that has its job from ClaimJob calls ClaimJob again (as the
\* store's tests do, without processing the job).
CallClaimJob(w) ==
    /\ pc[w] = "claimed"
    /\ pc' = [pc EXCEPT ![w] = "claim"]
    /\ job' = [job EXCEPT ![w] = None]
    /\ UNCHANGED storeVars
    /\ UNCHANGED <<catalogVars, agentVars, frontVars>>
    /\ UNCHANGED <<stale, activeWorkers, stopCh, stopPc, wg, faults, claimCount, agentOut>>

NextClaim ==
    \/ Tick
    \/ \E agent \in RegisteredAgents : EnqueueJob(agent)
    \/ \E w \in Workers : WorkerLoop(w)
    \/ \E w \in Workers : ClaimJobSelect(w)
    \/ \E w \in Workers : ClaimJobUpdate(w)
    \/ \E w \in Workers : CallClaimJob(w)

SpecClaim == Init /\ [][NextClaim]_vars

\* ------------------------------------------------- store: read queries
\* The status filters and limits ListJobs is called with: "" is no filter,
\* a limit that is not positive is no limit.
StatusFilters == {"", "queued", "running", "done", "failed"}
Limits == {0, 1, 2}

\* WHERE j.status = ?  (only when statusFilter is not "")
Filtered(js, statusFilter) ==
    {i \in DOMAIN js : /\ Joined(js[i], repos, commits)
                       /\ statusFilter = "" \/ js[i].status = statusFilter}

\* Every order in which the ids of S can be listed.
Orderings(S) ==
    {f \in [1..Cardinality(S) -> S] : \A a, b \in 1..Cardinality(S) : a # b => f[a] # f[b]}

\* LIMIT ?  (only when limit > 0)
Limited(rows, limit) ==
    IF limit > 0 /\ limit < Len(rows) THEN SubSeq(rows, 1, limit) ELSE rows

\* The same query with DESC forgotten: oldest first.
ListJobsAscending(js, statusFilter, limit) ==
    {Limited(f, limit) : f \in
        {g \in Orderings(Filtered(js, statusFilter)) :
            \A a, b \in DOMAIN g : a < b => js[g[a]].enqueuedAt <= js[g[b]].enqueuedAt}}

\* ListJobs(statusFilter, limit): the results the query may return, as
\* sequences of job ids.  ORDER BY j.enqueued_at DESC names enqueued_at
\* alone, so rows with the same enqueued_at come in any order.
ListJobs(js, statusFilter, limit) ==
    {Limited(f, limit) : f \in
        {g \in Orderings(Filtered(js, statusFilter)) :
            \A a, b \in DOMAIN g : a < b => js[g[a]].enqueuedAt >= js[g[b]].enqueuedAt}}

\* SELECT status, COUNT(*) FROM review_jobs GROUP BY status: one row per
\* status that some job has.
GroupByStatus(js) ==
    {<<st, Cardinality({i \in DOMAIN js : js[i].status = st})>> :
        st \in {js[i].status : i \in DOMAIN js}}

\* The value the loop over the grouped rows leaves in the named result for
\* status st: the row's count, or the zero the result starts with.
CountFor(rows, st) ==
    IF \E row \in rows : row[1] = st
    THEN (CHOOSE row \in rows : row[1] = st)[2]
    ELSE 0

\* The same loop with the case for failed missing from the switch.
GetJobCountsNoFailedCase(js) ==
    [queued |-> CountFor(GroupByStatus(js), "queued"),
     running |-> CountFor(GroupByStatus(js), "running"),
     done |-> CountFor(GroupByStatus(js), "done"),
     failed |-> 0]

\* GetJobCounts(): (queued, running, done, failed); rows of any other
\* status fall through the switch.
GetJobCounts(js) ==
    [queued |-> CountFor(GroupByStatus(js), "queued"),
     running |-> CountFor(GroupByStatus(js), "running"),
     done |-> CountFor(GroupByStatus(js), "done"),
     failed |-> CountFor(GroupByStatus(js), "failed")]

\* ------------------------------------------------------ store: comments
\* Who comments, and what they write.
Responders == {"test-user"}
CommentTexts == {"looks fine"}

\* A row of the comments table; its id is the next of the table.
NewComment(cs, jobId, responder, response) ==
    [id |-> Len(cs) + 1, jobId |-> jobId, responder |-> responder, response |-> response]

\* AddCommentToJob that never looks the job up.
AddCommentNoLookup(js, cs, id, responder, response) ==
    [ok |-> TRUE, comments |-> Append(cs, NewComment(cs, id, responder, response))]

\* AddCommentToJob that puts the new row before the others.
AddCommentInFront(js, cs, id, responder, response) ==
    IF id \notin DOMAIN js
    THEN [ok |-> FALSE, comments |-> cs]
    ELSE [ok |-> TRUE, comments |-> <<NewComment(cs, id, responder, response)>> \o cs]

\* The result of AddCommentToJob(jobID, responder, response) on tables js,
\* cs: [ok, comments].  A job id with no row is rejected (sql.ErrNoRows)
\* and nothing is inserted; any existing job gets the comment, whatever its
\* status and whether or not it has a review.
AddCommentResult(js, cs, id, responder, response) ==
    IF id \notin DOMAIN js
    THEN [ok |-> FALSE, comments |-> cs]
    ELSE [ok |-> TRUE, comments |-> Append(cs, NewComment(cs, id, responder, response))]

\* GetCommentsForJob(jobID): the job's comments, oldest first.
GetCommentsForJob(cs, id) == SelectSeq(cs, LAMBDA c : c.jobId = id)

\* cancelJob(jobId): status canceled, finishedAt = now, from a job that is
\* queued or running; any other job is left alone.
CancelUpdate(js, id, t) ==
    IF id \in DOMAIN js /\ js[id].status \in {"queued", "running"}
    THEN [js EXCEPT ![id].status = "canceled", ![id].finishedAt = t]
    ELSE js

\* Job ids a caller may name: those of 1..MaxJobs and one that never exists.
CallerJobIds == 1..(MaxJobs + 1)

AddCommentToJobCall(id, responder, response) ==
    /\ Len(comments) < MaxComments
    /\ comments' = AddCommentResult(jobs, comments, id, responder, response).comments
    /\ UNCHANGED <<jobs, reviews, now, faults>>
    /\ UNCHANGED <<catalogVars, agentVars, frontVars>>
    /\ UNCHANGED poolVars

AddCommentToJob(id) ==
    \E responder \in Responders, response \in CommentTexts :
        AddCommentToJobCall(id, responder, response)

CancelJobCall(id) ==
    /\ id \in DOMAIN jobs
    /\ jobs[id].status \in {"queued", "running"}
    /\ jobs' = CancelUpdate(jobs, id, now)
    /\ UNCHANGED <<reviews, now, comments, faults>>
    /\ UNCHANGED <<catalogVars, agentVars, frontVars>>
    /\ UNCHANGED poolVars

\* Any sequence of store calls, comments among them, within one second.
NextComments ==
    \/ \E agent \in RegisteredAgents : EnqueueJob(agent)
    \/ \E w \in Callers : ClaimJob(w)
    \/ \E id \in JobIds : CompleteJob(id)
    \/ \E id \in JobIds : FailJob(id)
    \/ \E id \in JobIds : CancelJobCall(id)
    \/ \E id \in CallerJobIds : AddCommentToJob(id)

SpecComments == Init /\ [][NextComments]_vars

\* ------------------------------------------------- store: repos, commits
\* A path is the sequence of its elements; an absolute path starts with the
\* element "/".  The working directory of the process:
Cwd == <<"w">>
\* The paths callers pass: two spellings of /r, a path through "..", and two
\* relative paths, one of them naming /r again.
RawPaths ==
    { <<"/", "r">>, <<"/", "r", ".">>, <<"/", "s", "..", "r">>,
      <<"r">>, <<"..", "r">> }

\* filepath.Clean on the elements under the root: "." is dropped, ".." removes
\* the element before it (nothing at the root).
RECURSIVE Clean(_, _)
Clean(done, rest) ==
    IF rest = <<>> THEN done
    ELSE LET e == Head(rest)
         IN  Clean(IF e = "." THEN done
                   ELSE IF e = ".."
                        THEN SubSeq(done, 1, Len(done) - 1)
                        ELSE Append(done, e),
                   Tail(rest))

\* filepath.Abs: an absolute path is cleaned, a relative one is joined to the
\* working directory first.  The result is the elements under the root.
Abs(path) ==
    IF path # <<>> /\ Head(path) = "/"
    THEN Clean(<<>>, Tail(path))
    ELSE Clean(<<>>, Cwd \o path)

\* filepath.Base of an absolute, clean path.
Base(absPath) == IF absPath = <<>> THEN "/" ELSE absPath[Len(absPath)]

\* SELECT ... FROM repos WHERE root_path = ?: the id of the row, or None.
FindRepoMisses(rs, absPath) == None
FindRepo(rs, absPath) ==
    IF \E i \in 1..Len(rs) : rs[i].rootPath = absPath
    THEN CHOOSE i \in 1..Len(rs) : rs[i].rootPath = absPath
    ELSE None

\* repos.root_path is unique: an INSERT of a path some row holds fails.
RootPathTaken(rs, absPath) == \E i \in 1..Len(rs) : rs[i].rootPath = absPath

NewRepo(rs, absPath) ==
    [id |-> Len(rs) + 1, rootPath |-> absPath, name |-> Base(absPath)]

\* What a GetOrCreate call returned.
Found(op, input, row) == [op |-> op, input |-> input, ok |-> TRUE, row |-> row]
Failed(op, input) == [op |-> op, input |-> input, ok |-> FALSE]

\* GetOrCreateRepo up to its SELECT.  The call returns the row found, or the
\* error of the query; when there is no row it goes on to its INSERT.  The
\* SELECT and the INSERT are two statements outside any transaction, so other
\* callers' statements come between them.
GetOrCreateRepoSelect(c, rootPath, fault) ==
    /\ gpc[c] = Idle
    /\ LET absPath == Abs(rootPath)
           found == FindRepo(repos, absPath)
       IN  IF fault
           THEN /\ faults < MaxFaults
                /\ faults' = faults + 1
                /\ ret' = [ret EXCEPT ![c] = Failed("repo", rootPath)]
                /\ gpc' = gpc
           ELSE /\ faults' = faults
                /\ IF found # None
                   THEN /\ ret' = [ret EXCEPT ![c] = Found("repo", rootPath, repos[found])]
                        /\ gpc' = gpc
                   ELSE /\ ret' = [ret EXCEPT ![c] = NoCall]
                        /\ gpc' = [gpc EXCEPT ![c] = [op |-> "repo", input |-> rootPath]]
    /\ UNCHANGED <<jobs, reviews, comments, now, repos, commits>>
    /\ UNCHANGED <<agentVars, frontVars>>
    /\ UNCHANGED poolVars

\* GetOrCreateRepo from its INSERT on.
GetOrCreateRepoInsert(c, fault) ==
    /\ gpc[c].op = "repo"
    /\ LET rootPath == gpc[c].input
           absPath == Abs(rootPath)
       IN  IF fault \/ RootPathTaken(repos, absPath)
           THEN /\ fault => faults < MaxFaults
                /\ faults' = IF fault THEN faults + 1 ELSE faults
                /\ ret' = [ret EXCEPT ![c] = Failed("repo", rootPath)]
                /\ repos' = repos
           ELSE /\ repos' = Append(repos, NewRepo(repos, absPath))
                /\ ret' = [ret EXCEPT ![c] = Found("repo", rootPath, NewRepo(repos, absPath))]
                /\ faults' = faults
    /\ gpc' = [gpc EXCEPT ![c] = Idle]
    /\ UNCHANGED <<jobs, reviews, comments, now, commits>>
    /\ UNCHANGED <<agentVars, frontVars>>
    /\ UNCHANGED poolVars

\* No job, no caller in a call, the pool as constructed; the tables repos and
\* commits and the agents are set by the specification.
InitCallers ==
    /\ jobs = <<>>
    /\ reviews = <<>>
    /\ comments = <<>>
    /\ gpc = [c \in Clients |-> Idle]
    /\ ret = [c \in Clients |-> NoCall]
    /\ now = 0
    /\ pc = [w \in Workers |-> "loop"]
    /\ job = [w \in Workers |-> None]
    /\ stale = [w \in Workers |-> FALSE]
    /\ activeWorkers = 0
    /\ stopCh = FALSE
    /\ stopPc = "running"
    /\ wg = NumWorkers
    /\ faults = 0
    /\ claimCount = [j \in JobIds |-> 0]
    /\ agentOut = [j \in JobIds |-> <<>>]
    /\ InitFront

\* A fresh store: no repo, no commit.
InitCatalog ==
    /\ repos = <<>> /\ commits = <<>>
    /\ agents = <<NewOllamaAgent("")>> /\ withRet = NoCall /\ review = Idle
    /\ InitCallers

GetOrCreateRepo(c) ==
    \/ \E rootPath \in RawPaths, fault \in BOOLEAN :
           GetOrCreateRepoSelect(c, rootPath, fault)
    \/ \E fault \in BOOLEAN : GetOrCreateRepoInsert(c, fault)

NextRepos == \E c \in Clients : GetOrCreateRepo(c)

\* Any number of goroutines calling GetOrCreateRepo on a fresh store.
SpecRepos == InitCatalog /\ [][NextRepos]_vars

\* A time.Time is <<seconds, nanoseconds>>.  Format(time.RFC3339) keeps the
\* seconds only; time.Parse of the stored text gives the time back with no
\* nanoseconds.
Format(t) == t[1]
Parse(ts) == <<ts, 0>>

\* The arguments callers pass to GetOrCreateCommit: the same sha under two
\* repos with different author, subject and timestamp, and a second sha.
OtherRepo == [id |-> 2, rootPath |-> <<"w", "r">>, name |-> "r"]
CommitInputs ==
    { [repoId |-> TestRepoId, sha |-> "a", author |-> "x", subject |-> "s",
       timestamp |-> <<0, 1>>],
      [repoId |-> OtherRepo.id, sha |-> "a", author |-> "y", subject |-> "t",
       timestamp |-> <<1, 0>>],
      [repoId |-> TestRepoId, sha |-> "b", author |-> "x", subject |-> "s",
       timestamp |-> <<0, 1>>] }

\* SELECT ... FROM commits WHERE sha = ?: the id of the row, or None.
FindCommitInRepo(cs, in) ==
    IF \E i \in 1..Len(cs) : cs[i].sha = in.sha /\ cs[i].repoId = in.repoId
    THEN CHOOSE i \in 1..Len(cs) : cs[i].sha = in.sha /\ cs[i].repoId = in.repoId
    ELSE None
FindCommit(cs, in) ==
    IF \E i \in 1..Len(cs) : cs[i].sha = in.sha
    THEN CHOOSE i \in 1..Len(cs) : cs[i].sha = in.sha
    ELSE None

\* commits.sha is unique: an INSERT of a sha some row holds fails.
ShaTaken(cs, sha) == \E i \in 1..Len(cs) : cs[i].sha = sha

\* The row the INSERT stores, and the Commit scanned from a stored row.
NewCommit(cs, in) ==
    [id |-> Len(cs) + 1, repoId |-> in.repoId, sha |-> in.sha,
     author |-> in.author, subject |-> in.subject,
     timestamp |-> Format(in.timestamp)]
ScanCommit(row) == [row EXCEPT !.timestamp = Parse(row.timestamp)]

\* GetOrCreateCommit up to its SELECT: returns the stored commit, or the
\* error of the query, or goes on to its INSERT.
GetOrCreateCommitSelect(c, in, fault) ==
    /\ gpc[c] = Idle
    /\ LET found == FindCommit(commits, in)
       IN  IF fault
           THEN /\ faults < MaxFaults
                /\ faults' = faults + 1
                /\ ret' = [ret EXCEPT ![c] = Failed("commit", in)]
                /\ gpc' = gpc
           ELSE /\ faults' = faults
                /\ IF found # None
                   THEN /\ ret' = [ret EXCEPT ![c] =
                                      Found("commit", in, ScanCommit(commits[found]))]
                        /\ gpc' = gpc
                   ELSE /\ ret' = [ret EXCEPT ![c] = NoCall]
                        /\ gpc' = [gpc EXCEPT ![c] = [op |-> "commit", input |-> in]]
    /\ UNCHANGED <<jobs, reviews, comments, now, repos, commits>>
    /\ UNCHANGED <<agentVars, frontVars>>
    /\ UNCHANGED poolVars

\* GetOrCreateCommit from its INSERT on: the Commit returned carries the
\* arguments as passed, the row their stored form.
GetOrCreateCommitInsert(c, fault) ==
    /\ gpc[c].op = "commit"
    /\ LET in == gpc[c].input
           row == NewCommit(commits, in)
       IN  IF fault \/ ShaTaken(commits, in.sha)
           THEN /\ fault => faults < MaxFaults
                /\ faults' = IF fault THEN faults + 1 ELSE faults
                /\ ret' = [ret EXCEPT ![c] = Failed("commit", in)]
                /\ commits' = commits
           ELSE /\ commits' = Append(commits, row)
                /\ ret' = [ret EXCEPT ![c] =
                              Found("commit", in,
                                    [row EXCEPT !.timestamp = in.timestamp])]
                /\ faults' = faults
    /\ gpc' = [gpc EXCEPT ![c] = Idle]
    /\ UNCHANGED <<jobs, reviews, comments, now, repos>>
    /\ UNCHANGED <<agentVars, frontVars>>
    /\ UNCHANGED poolVars

GetOrCreateCommit(c) ==
    \/ \E in \in CommitInputs, fault \in BOOLEAN :
           GetOrCreateCommitSelect(c, in, fault)
    \/ \E fault \in BOOLEAN : GetOrCreateCommitInsert(c, fault)

NextCommits == \E c \in Clients : GetOrCreateCommit(c)

\* Any number of goroutines calling GetOrCreateCommit on a store that holds
\* the two repos and no commit.
InitCommits ==
    /\ repos = <<TestRepo, OtherRepo>> /\ commits = <<>>
    /\ agents = <<NewOllamaAgent("")>> /\ withRet = NoCall /\ review = Idle
    /\ InitCallers
SpecCommits == InitCommits /\ [][NextCommits]_vars

\* ---------------------------------------------------- store: GetJobByID
\* GetJobByID(id): the job row joined to its repo and its commit, scanned
\* into a ReviewJob; sql.ErrNoRows when the join has no row for the id.  A
\* NULL started_at or finished_at leaves the pointer nil, a NULL worker_id or
\* error leaves the empty string.
ErrNoRows == [ok |-> FALSE]
GetJobByID(js, rs, cs, id) ==
    IF id \in DOMAIN js /\ Joined(js[id], rs, cs)
    THEN [ok |-> TRUE,
          job |-> [id |-> id,
                   repoId |-> js[id].repoId,
                   commitId |-> js[id].commitId,
                   agent |-> js[id].agent,
                   status |-> js[id].status,
                   enqueuedAt |-> js[id].enqueuedAt,
                   startedAt |-> js[id].startedAt,
                   finishedAt |-> js[id].finishedAt,
                   workerId |-> js[id].workerId,
                   error |-> js[id].error]]
    ELSE ErrNoRows

\* The ids a caller of EnqueueJob passes: those of the stored repo and commit
\* and one that no row has.
RepoIdArgs == {TestRepoId, 2}
CommitIdArgs == {TestCommitId, 2}

\* Callers of EnqueueJob with any ids, and callers of ClaimJob.
NextEnqueue ==
    \/ Tick
    \/ \E repoId \in RepoIdArgs, commitId \in CommitIdArgs, agent \in AgentNames :
           EnqueueJobCall(repoId, commitId, agent)
    \/ \E w \in Callers : ClaimJob(w)

SpecEnqueue == Init /\ [][NextEnqueue]_vars

\* ------------------------------------------------ agent: OllamaAgent copies
\* Model names passed to WithModel, the empty one among them.
Models == {"", "llama3:70b"}

\* The receiver a With... method may be called on: any agent allocated, the
\* one in the registry (pointer 1, registered by init) included.
AgentPtrs == 1..Len(agents)

\* What a With... method leaves behind: the allocated agents and the
\* pointer it returns.
Returns(as, ptr) == [agents |-> as, result |-> ptr]

WithModelInPlace(as, a, model) ==
    Returns([as EXCEPT ![a].Model = model], a)
\* WithModel: the receiver itself for "", otherwise a new agent with the
\* receiver's fields and the model.
WithModelResult(as, a, model) ==
    IF model = ""
    THEN Returns(as, a)
    ELSE Returns(Append(as, [BaseURL |-> as[a].BaseURL,
                             Model |-> model,
                             Reasoning |-> as[a].Reasoning,
                             Agentic |-> as[a].Agentic,
                             HTTPClient |-> as[a].HTTPClient]),
                 Len(as) + 1)

WithReasoningResult(as, a, level) ==
    Returns(Append(as, [BaseURL |-> as[a].BaseURL,
                        Model |-> as[a].Model,
                        Reasoning |-> level,
                        Agentic |-> as[a].Agentic,
                        HTTPClient |-> as[a].HTTPClient]),
            Len(as) + 1)

WithAgenticResult(as, a, agentic) ==
    Returns(Append(as, [BaseURL |-> as[a].BaseURL,
                        Model |-> as[a].Model,
                        Reasoning |-> as[a].Reasoning,
                        Agentic |-> agentic,
                        HTTPClient |-> as[a].HTTPClient]),
            Len(as) + 1)

\* A call of a With... method on agent a: the bound on allocated agents
\* stops the calls that allocate.
WithCall(op, a, arg, r) ==
    /\ Len(r.agents) <= MaxAgents
    /\ agents' = r.agents
    /\ withRet' = [op |-> op, recv |-> a, arg |-> arg, result |-> r.result]
    /\ UNCHANGED <<jobs, reviews, comments, now, faults, review>>
    /\ UNCHANGED <<catalogVars, frontVars>>
    /\ UNCHANGED poolVars

WithModel(a, model) ==
    WithCall("WithModel", a, model, WithModelResult(agents, a, model))
WithReasoning(a, level) ==
    WithCall("WithReasoning", a, level, WithReasoningResult(agents, a, level))
WithAgentic(a, agentic) ==
    WithCall("WithAgentic", a, agentic, WithAgenticResult(agents, a, agentic))

\* The registry's agent, or an agent a test built for its server and gave an
\* HTTP client.
InitAgents ==
    /\ agents \in { <<NewOllamaAgent("")>>,
                    <<[NewOllamaAgent("http://127.0.0.1:8080") EXCEPT !.HTTPClient = 1]>> }
    /\ withRet = NoCall
    /\ review = Idle
    /\ repos = <<>> /\ commits = <<>> /\ InitCallers

NextAgents ==
    \E a \in AgentPtrs :
        \/ \E model \in Models : WithModel(a, model)
        \/ \E level \in ReasoningLevels : WithReasoning(a, level)
        \/ \E agentic \in BOOLEAN : WithAgentic(a, agentic)

SpecAgents == InitAgents /\ [][NextAgents]_vars

\* ------------------------------------------------ agent: OllamaAgent.Review
\* Texts (a message content, an error message, a response body) are
\* sequences of words, so that texts are concatenated and searched.
RECURSIVE IsInfix(_, _)
IsInfix(pat, text) ==
    IF Len(pat) > Len(text) THEN FALSE
    ELSE \/ SubSeq(text, 1, Len(pat)) = pat
         \/ IsInfix(pat, Tail(text))

defaultOllamaModel == "qwen2.5-coder:latest"
\* Model names with a character validateOllamaModel rejects.
InvalidModels == {"bad model"}

\* The errors Review returns: the return statement they come from and the
\* words of their message.
NoError == [class |-> "nil", msg |-> <<>>]
Errorf(class, msg) == [class |-> class, msg |-> msg]

\* What client.Do returns: a transport error, or a response with a status
\* and a body.
NoResponse == [kind |-> "none"]
TransportErrors ==
    { [kind |-> "error", deadline |-> TRUE,
       msg |-> <<"context", "deadline", "exceeded">>],
      [kind |-> "error", deadline |-> FALSE,
       msg |-> <<"dial", "tcp:", "connect:", "connection", "refused">>],
      [kind |-> "error", deadline |-> FALSE,
       msg |-> <<"connection", "reset", "by", "peer">>] }
Statuses == {200, 400, 404, 500, 501, 503}
Bodies ==
    { <<"model", "not", "found">>,
      <<"upstream", "connect", "error:", "connection", "refused">> }
HTTPResponses == [kind : {"http"}, status : Statuses, body : Bodies]
Responses == TransportErrors \cup HTTPResponses

\* classifyError(err, statusCode, model) on agent a, err given by whether it
\* is a context.DeadlineExceeded and by its message.
classifyError(a, deadline, errMsg, statusCode, model) ==
    IF deadline
    THEN Errorf("timeout", <<"ollama", "request", "timed", "out.">>)
    ELSE IF IsInfix(<<"connection", "refused">>, errMsg)
    THEN Errorf("server-unreachable",
                <<"ollama", "server", "not", "reachable", "at", a.BaseURL,
                  "Is", "Ollama", "running?">>)
    ELSE IF statusCode = 404
    THEN Errorf("model-not-found",
                <<"model", model, "not", "found.", "Pull", "it", "with:",
                  "ollama", "pull", model>>)
    ELSE IF statusCode \in {500, 502, 503, 504}
    THEN Errorf("server-error",
                <<"ollama", "server", "error", "(status", ToString(statusCode), "):">>
                    \o errMsg)
    ELSE IF statusCode > 0
    THEN Errorf("request-failed",
                <<"ollama", "request", "failed", "(status", ToString(statusCode), "):">>
                    \o errMsg)
    ELSE Errorf("request-failed", <<"ollama", "request", "failed:">> \o errMsg)

\* The lines of the NDJSON body: a JSON object with message.content, done
\* and error; a line that is no JSON; an empty line.
Json(content, done, error) ==
    [kind |-> "json", content |-> content, done |-> done, error |-> error]
Malformed == [kind |-> "text"]
Blank == [kind |-> "blank"]
Lines ==
    { Json(<<"a">>, FALSE, ""), Json(<<"b">>, FALSE, ""),
      Json(<<>>, TRUE, ""), Json(<<"c">>, TRUE, ""),
      Json(<<"x">>, FALSE, "boom"), Malformed, Blank }

\* json.Unmarshal([]byte(line), &resp)
Unmarshal(line) ==
    IF line.kind = "json"
    THEN [ok |-> TRUE, content |-> line.content, done |-> line.done,
          error |-> line.error]
    ELSE [ok |-> FALSE]

Repeat(line, n) == [i \in 1..n |-> line]
\* The bodies parseStream is given: every body of up to MaxLines lines, and
\* longer ones with up to MaxMalformed malformed lines before, after and
\* around a valid or an empty line.
Streams ==
    UNION {[1..n -> Lines] : n \in 0..MaxLines}
    \cup { pre \o Repeat(Malformed, k) \o mid \o Repeat(Malformed, j) \o post :
             pre \in {<<>>, <<Json(<<"a">>, FALSE, "")>>},
             k \in 0..MaxMalformed,
             mid \in {<<>>, <<Blank>>, <<Json(<<"b">>, FALSE, "")>>},
             j \in 0..2,
             post \in {<<>>, <<Json(<<"c">>, TRUE, "")>>} }

\* The output argument: nil, a writer that takes every write, a writer
\* whose Write fails.
Outputs == {"nil", "buffer", "broken"}

\* The literal returned for an empty result.
NoOutput == <<"No review output generated">>
MalformedLimit == 5

\* !sawValidJSON && consecutiveParseFailures >= 5
NonJSONAfterValid(sawValidJSON, consecutiveParseFailures) ==
    consecutiveParseFailures >= MalformedLimit
NonJSON(sawValidJSON, consecutiveParseFailures) ==
    ~sawValidJSON /\ consecutiveParseFailures >= MalformedLimit

\* if resp.Done { break }
NeverStops(resp) == FALSE
Stops(resp) == resp.done

\* result.WriteString(content)
AccumulateInFront(result, content) == content \o result
Accumulate(result, content) == result \o content

\* sw.Write([]byte(content)) on a writer that takes the bytes: the
\* syncWriter passes them to the output it wraps (newSyncWriter(nil) is nil).
SinkWrite(written, content) == written \o content

\* finalResult: the literal for an empty result.
FinalResultRaw(result) == result
FinalResult(result) == IF result = <<>> THEN NoOutput ELSE result

\* The locals of a Review call on agent a that stands before CheckHealth.
ReviewLocals(a, output) ==
    [op |-> "health",
     BaseURL |-> a.BaseURL,
     model |-> IF a.Model = "" THEN defaultOllamaModel ELSE a.Model,
     output |-> output,
     health |-> NoResponse,
     chat |-> NoResponse,
     stream |-> <<>>,
     pos |-> 1,
     result |-> <<>>,
     forwarded |-> <<>>,
     written |-> <<>>,
     consecutiveParseFailures |-> 0,
     sawValidJSON |-> FALSE,
     text |-> <<>>,
     err |-> NoError]

\* return text, err
Return(r, text, err) == [r EXCEPT !.op = "returned", !.text = text, !.err = err]

\* parseStream(resp.Body, output) begins.
ParseStream(r, stream) == [r EXCEPT !.op = "scan", !.stream = stream]

ReviewFrame ==
    /\ UNCHANGED <<jobs, reviews, comments, now, faults, agents, withRet>>
    /\ UNCHANGED <<catalogVars, frontVars>>
    /\ UNCHANGED poolVars

\* Review is called on agent a.
ReviewStart(a, output) ==
    /\ review = Idle
    /\ review' = ReviewLocals(agents[a], output)
    /\ ReviewFrame

\* Review without its fast-fail: the chat request is prepared whatever
\* GET /api/tags answered.
CheckHealthSkipped(resp) ==
    /\ review.op = "health"
    /\ review' = [review EXCEPT !.health = resp, !.op = "chat"]
    /\ ReviewFrame

\* CheckHealth: GET /api/tags.  A transport error is classified, a status
\* other than 200 is a failed health check, and Review returns either.
CheckHealth(resp) ==
    /\ review.op = "health"
    /\ LET r == [review EXCEPT !.health = resp]
       IN  review' =
             IF resp.kind = "error"
             THEN Return(r, <<>>, classifyError(r, resp.deadline, resp.msg, 0, ""))
             ELSE IF resp.status # 200
             THEN Return(r, <<>>,
                         Errorf("health-check-failed",
                                <<"ollama", "server", "health", "check", "failed",
                                  "with", "status", ToString(resp.status)>>))
             ELSE [r EXCEPT !.op = "chat"]
    /\ ReviewFrame

\* validateOllamaModel fails: Review returns before any request.
InvalidModel ==
    /\ review.op = "chat"
    /\ review.model \in InvalidModels
    /\ review' = Return(review, <<>>,
                        Errorf("invalid-model", <<"invalid", "model", "name", review.model>>))
    /\ ReviewFrame

\* POST /api/chat: a transport error and a status other than 200 (with the
\* body as the error's message) are classified; a 200 hands the body to
\* parseStream.
Chat(resp, stream) ==
    /\ review.op = "chat"
    /\ review.model \notin InvalidModels
    /\ LET r == [review EXCEPT !.chat = resp]
       IN  review' =
             IF resp.kind = "error"
             THEN Return(r, <<>>, classifyError(r, resp.deadline, resp.msg, 0, r.model))
             ELSE IF resp.status # 200
             THEN Return(r, <<>>, classifyError(r, FALSE, resp.body, resp.status, r.model))
             ELSE ParseStream(r, stream)
    /\ ReviewFrame

\* One turn of the scanner loop of parseStream, on the line at pos; a line
\* with done = true breaks the loop and the function returns.  forwarded
\* holds the bytes passed to sw.Write, written those the writer took.
ScanLine ==
    /\ review.op = "scan"
    /\ review.pos <= Len(review.stream)
    /\ LET r == review
           line == r.stream[r.pos]
           resp == Unmarshal(line)
           next == [r EXCEPT !.pos = r.pos + 1]
       IN  review' =
             IF line.kind = "blank" THEN next
             ELSE IF ~resp.ok
             THEN LET failed == [next EXCEPT !.consecutiveParseFailures = @ + 1]
                  IN  IF NonJSON(failed.sawValidJSON, failed.consecutiveParseFailures)
                      THEN Return([failed EXCEPT !.pos = r.pos], <<>>,
                                  Errorf("non-json",
                                         <<"ollama", "returned", "non-JSON", "response">>))
                      ELSE failed
             ELSE LET valid == [r EXCEPT !.sawValidJSON = TRUE,
                                         !.consecutiveParseFailures = 0]
                      acc == [valid EXCEPT !.result = Accumulate(@, resp.content)]
                      tried == IF r.output = "nil" \/ resp.content = <<>>
                               THEN acc
                               ELSE [acc EXCEPT !.forwarded = @ \o resp.content]
                      sent == IF r.output = "buffer" /\ resp.content # <<>>
                              THEN [tried EXCEPT !.written = SinkWrite(@, resp.content)]
                              ELSE tried
                  IN  IF resp.error # ""
                      THEN Return(valid, valid.result,
                                  Errorf("ollama-error", <<"ollama", "error:", resp.error>>))
                      ELSE IF resp.content # <<>> /\ r.output = "broken"
                      THEN Return(tried, tried.result,
                                  Errorf("write-output", <<"write", "output:">>))
                      ELSE IF Stops(resp)
                      THEN Return(sent, FinalResult(sent.result), NoError)
                      ELSE [sent EXCEPT !.pos = r.pos + 1]
    /\ ReviewFrame

\* A parseStream for which a body that ends before a done line is an
\* error.
EndOfStreamUnexpected(readErr) ==
    /\ review.op = "scan"
    /\ review.pos > Len(review.stream)
    /\ review' = Return(review, review.result,
                        Errorf("no-done-line", <<"stream", "ended", "before", "done">>))
    /\ ReviewFrame

\* The scanner has no further line: the body ended, or reading it failed.
EndOfStream(readErr) ==
    /\ review.op = "scan"
    /\ review.pos > Len(review.stream)
    /\ review' =
         IF readErr
         THEN Return(review, review.result, Errorf("read-stream", <<"read", "stream:">>))
         ELSE Return(review, FinalResult(review.result), NoError)
    /\ ReviewFrame

\* parseStream on its own: any body, any output.
InitStream ==
    /\ agents = <<NewOllamaAgent("")>>
    /\ withRet = NoCall
    /\ \E stream \in Streams, output \in Outputs :
           review = ParseStream(ReviewLocals(agents[1], output), stream)
    /\ repos = <<>> /\ commits = <<>> /\ InitCallers

NextStream ==
    \/ ScanLine
    \/ \E readErr \in BOOLEAN : EndOfStream(readErr)

SpecStream == InitStream /\ [][NextStream]_vars

\* The bodies the mock servers of the tests send with a 200, and one that
\* ends before its done line.
TestStreams ==
    { <<Json(<<"a">>, FALSE, ""), Json(<<"b">>, FALSE, ""), Json(<<>>, TRUE, "")>>,
      <<Json(<<"a">>, FALSE, "")>>,
      <<Json(<<>>, TRUE, "")>>,
      <<Json(<<"a">>, FALSE, ""), Malformed, Json(<<"b">>, FALSE, ""),
        Json(<<>>, TRUE, "")>> }

\* Review on an agent with the default model, a model the server does not
\* have, or an invalid model name, against a server that answers each of the
\* two requests in any way.
InitReview ==
    /\ \E model \in {"", "nonexistent:model", "bad model"} :
           agents = <<[NewOllamaAgent("http://127.0.0.1:8080") EXCEPT !.Model = model]>>
    /\ withRet = NoCall
    /\ review = Idle
    /\ repos = <<>> /\ commits = <<>> /\ InitCallers

NextReview ==
    \/ \E a \in AgentPtrs, output \in Outputs : ReviewStart(a, output)
    \/ \E resp \in Responses : CheckHealth(resp)
    \/ InvalidModel
    \/ \E resp \in Responses, stream \in TestStreams : Chat(resp, stream)
    \/ ScanLine
    \/ \E readErr \in BOOLEAN : EndOfStream(readErr)

SpecReview == InitReview /\ [][NextReview]_vars

\* ------------------------------------------- agent: ResolveOllamaBaseURL
\* Everything of the state that the environment, the daemon processes and
\* the terminal client leave alone.
backVars == <<storeVars, faults, catalogVars, agentVars, poolVars>>

\* A string is the sequence of its characters.
Letters ==
    { "a", "b", "c", "d", "e", "f", "g", "h", "i", "j", "k", "l", "m", "n", "o", "p", "q", "r", "s", "t", "u", "v", "w", "x", "y", "z", "A", "B", "C", "D", "E", "F", "G", "H", "I", "J", "K", "L", "M", "N", "O", "P", "Q", "R", "S", "T", "U", "V", "W", "X", "Y", "Z" }
Digits == { "0", "1", "2", "3", "4", "5", "6", "7", "8", "9" }

\* The values of OLLAMA_HOST: URLs with a scheme, bare hosts, hosts with a
\* path, hosts with a port, an address, a port alone, a network-path
\* reference.
EnvValues ==
    { <<"h", "t", "t", "p", ":", "/", "/", "e", "n", "v", ":", "9", "9", "9", "9">>,
      <<"h", "t", "t", "p", "s", ":", "/", "/", "h">>,
      <<"H", "T", "T", "P", ":", "/", "/", "h">>,
      <<"m", "y", "s", "e", "r", "v", "e", "r">>,
      <<"m", "y", "s", "e", "r", "v", "e", "r", "/", "a", "p", "i">>,
      <<"l", "o", "c", "a", "l", "h", "o", "s", "t", ":", "1", "1", "4", "3", "4">>,
      <<"1", "2", "7", ".", "0", ".", "0", ".", "1", ":", "1", "1", "4", "3", "4">>,
      <<"0", ".", "0", ".", "0", ".", "0">>,
      <<":", "1", "1", "4", "3", "4">>,
      <<"/", "/", "h">> }

\* The cfg argument: nil, a value without GetOllamaBaseURL, and values whose
\* GetOllamaBaseURL returns "", a URL or a bare host.
Configs ==
    { [kind |-> "nil"], [kind |-> "other"] }
    \cup [kind : {"getter"}, url : {<<>>, <<"h", "t", "t", "p", ":", "/", "/", "c", "o", "n", "f", "i", "g", ":", "8", "0", "8", "0">>, <<"c", "f", "g", "h", "o", "s", "t">>}]

defaultBaseURL == <<"h", "t", "t", "p", ":", "/", "/", "l", "o", "c", "a", "l", "h", "o", "s", "t", ":", "1", "1", "4", "3", "4">>

\* getScheme(rawURL) of net/url, as url.Parse calls it: letters go on, a
\* digit or one of + - . goes on unless it is the first character, a colon
\* ends the scheme unless it is the first character (an error), any other
\* character means there is no scheme.
RECURSIVE getScheme(_, _)
getScheme(rawURL, i) ==
    IF i > Len(rawURL)
    THEN [err |-> FALSE, scheme |-> <<>>, rest |-> rawURL]
    ELSE LET c == rawURL[i]
         IN  IF c \in Letters THEN getScheme(rawURL, i + 1)
             ELSE IF c \in Digits \cup {"+", "-", "."}
             THEN IF i = 1
                  THEN [err |-> FALSE, scheme |-> <<>>, rest |-> rawURL]
                  ELSE getScheme(rawURL, i + 1)
             ELSE IF c = ":"
             THEN IF i = 1
                  THEN [err |-> TRUE, scheme |-> <<>>, rest |-> rawURL]
                  ELSE [err |-> FALSE, scheme |-> SubSeq(rawURL, 1, i - 1),
                        rest |-> SubSeq(rawURL, i + 1, Len(rawURL))]
             ELSE [err |-> FALSE, scheme |-> <<>>, rest |-> rawURL]

\* The part of s before its first "/".
RECURSIVE firstSegment(_)
firstSegment(s) ==
    IF s = <<>> \/ Head(s) = "/" THEN <<>> ELSE <<Head(s)>> \o firstSegment(Tail(s))

\* url.Parse(rawURL), for the scheme and the error it returns: what follows
\* a scheme and does not start with "/" is opaque; without a scheme, a first
\* path segment with a colon is an error.  The values of OLLAMA_HOST used
\* here have no control character, query, fragment or escape, and a valid
\* authority after "//".
urlParse(rawURL) ==
    LET s == getScheme(rawURL, 1)
    IN  IF s.err THEN [err |-> TRUE, Scheme |-> <<>>]
        ELSE IF s.rest = <<>> \/ Head(s.rest) # "/"
        THEN IF s.scheme # <<>> THEN [err |-> FALSE, Scheme |-> s.scheme]
             ELSE IF \E j \in 1..Len(firstSegment(s.rest)) : s.rest[j] = ":"
             THEN [err |-> TRUE, Scheme |-> <<>>]
             ELSE [err |-> FALSE, Scheme |-> <<>>]
        ELSE [err |-> FALSE, Scheme |-> s.scheme]

normalizeOllamaURL(rawURL) ==
    LET parsed == urlParse(rawURL)
    IN  IF parsed.err THEN rawURL
        ELSE IF parsed.Scheme = <<>> THEN <<"h", "t", "t", "p", ":", "/", "/">> \o rawURL
        ELSE rawURL

ResolveOllamaBaseURL(cfg, envURL) ==
    IF cfg.kind = "getter" /\ cfg.url # <<>> THEN cfg.url
    ELSE IF envURL # <<>> THEN normalizeOllamaURL(envURL)
    ELSE defaultBaseURL

\* t.Setenv("OLLAMA_HOST", value); the empty value is what os.Getenv
\* returns for a variable that is not set.
Setenv(value) ==
    /\ env' = value
    /\ UNCHANGED <<resolved, handshake, daemon, tui>>
    /\ UNCHANGED backVars

\* A call ResolveOllamaBaseURL(cfg).
ResolveCall(cfg) ==
    /\ resolved' = [op |-> "resolve", cfg |-> cfg, env |-> env,
                    url |-> ResolveOllamaBaseURL(cfg, env)]
    /\ UNCHANGED <<env, handshake, daemon, tui>>
    /\ UNCHANGED backVars

NextResolve ==
    \/ \E value \in EnvValues \cup {<<>>} : Setenv(value)
    \/ \E cfg \in Configs : ResolveCall(cfg)

\* ResolveOllamaBaseURL under every environment and configuration.
SpecResolve == Init /\ [][NextResolve]_vars

\* --------------------------------------- daemon: the single-instance protocol
\* The port the daemon prefers and how many further ports it tries.
PreferredPort == 7373
PortTries == 20
\* The exit code of a process that was killed.
Killed == 137

\* The handshake file {pid, port, startedAt}.
Handshake(pid, port, startedAt) == [pid |-> pid, port |-> port, startedAt |-> startedAt]

\* The process with this pid is alive.
Alive(pid) == pid \in Daemons /\ daemon[pid].pc \notin {"off", "exited"}
\* The port is taken: some live process has bound it.
Bound(port) ==
    \E d \in Daemons : daemon[d].pc \in {"bound", "serving"} /\ daemon[d].port = port
\* GET /api/status on the port is never answered.
NeverAnswers(port) == FALSE
\* GET /api/status on the port is answered within the deadline: a daemon
\* serves on it.
Answers(port) ==
    \E d \in Daemons : daemon[d].pc = "serving" /\ daemon[d].port = port

\* The daemon process d ends with an exit code.
Exit(d, code, why) ==
    [daemon EXCEPT ![d] = [@ EXCEPT !.pc = "exited", !.exit = code, !.why = why]]

DaemonFrame == UNCHANGED <<env, resolved, tui>> /\ UNCHANGED backVars

\* A daemon process is started (by a user or by a client that found no
\* daemon).
StartDaemon(d) ==
    /\ daemon[d].pc = "off"
    /\ daemon' = [daemon EXCEPT ![d] = [@ EXCEPT !.pc = "read"]]
    /\ UNCHANGED handshake
    /\ DaemonFrame

\* On startup, read the handshake file.
ReadHandshake(d) ==
    /\ daemon[d].pc = "read"
    /\ daemon' = [daemon EXCEPT ![d] = [@ EXCEPT !.pc = "probe", !.seen = handshake]]
    /\ UNCHANGED handshake
    /\ DaemonFrame

\* If the file was present, the recorded PID is alive and the recorded port
\* answers GET /api/status, refuse to start and exit successfully;
\* otherwise go on to select a port, starting from the preferred one.
Probe(d) ==
    /\ daemon[d].pc = "probe"
    /\ LET seen == daemon[d].seen
       IN  daemon' =
             IF seen # NoFile /\ Alive(seen.pid) /\ Answers(seen.port)
             THEN Exit(d, 0, "refused")
             ELSE [daemon EXCEPT ![d] = [@ EXCEPT !.pc = "select",
                                                  !.port = PreferredPort]]
    /\ UNCHANGED handshake
    /\ DaemonFrame

\* Bind the selected port; on conflict select the next one, and give up
\* after the preferred port and the next PortTries.
Bind(d) ==
    /\ daemon[d].pc = "select"
    /\ LET port == daemon[d].port
       IN  daemon' =
             IF ~Bound(port)
             THEN [daemon EXCEPT ![d] = [@ EXCEPT !.pc = "bound"]]
             ELSE IF port < PreferredPort + PortTries
             THEN [daemon EXCEPT ![d] = [@ EXCEPT !.port = port + 1]]
             ELSE Exit(d, 1, "no port")
    /\ UNCHANGED handshake
    /\ DaemonFrame

\* Atomically write the new handshake file (write then rename), and serve.
WriteHandshake(d) ==
    /\ daemon[d].pc = "bound"
    /\ handshake' = Handshake(d, daemon[d].port, now)
    /\ daemon' = [daemon EXCEPT ![d] = [@ EXCEPT !.pc = "serving"]]
    /\ DaemonFrame

\* Graceful shutdown: remove the handshake file and exit.
Shutdown(d) ==
    /\ daemon[d].pc = "serving"
    /\ handshake' = NoFile
    /\ daemon' = Exit(d, 0, "shutdown")
    /\ DaemonFrame

\* The process is killed: it removes nothing.
Kill(d) ==
    /\ Alive(d)
    /\ daemon' = Exit(d, Killed, "killed")
    /\ UNCHANGED handshake
    /\ DaemonFrame

NextDaemon ==
    \E d \in Daemons :
        \/ StartDaemon(d)
        \/ ReadHandshake(d)
        \/ Probe(d)
        \/ Bind(d)
        \/ WriteHandshake(d)
        \/ Shutdown(d)
        \/ Kill(d)

\* Daemon processes started at any time, each running the startup protocol.
SpecDaemon == Init /\ [][NextDaemon]_vars

\* ------------------------------------------------- roborev-tui: model.Update
\* The keys Update tells apart, and one it ignores.
Keys == {"ctrl+c", "q", "up", "k", "down", "j", "enter", "esc", "x"}
\* The job lists GET /api/jobs returns: the status of each job, newest
\* first.
JobLists == UNION {[1..n -> {"queued", "done"}] : n \in 0..MaxListed}

\* jobsMsg without its adjustment of selectedIdx.
KeepSelected(selectedIdx, n) == selectedIdx
\* if m.selectedIdx >= len(m.jobs) { m.selectedIdx = max(0, len(m.jobs)-1) }
ClampSelected(selectedIdx, n) ==
    IF selectedIdx >= n THEN (IF n - 1 > 0 THEN n - 1 ELSE 0) ELSE selectedIdx

\* The message of a key press, of a terminal resize, of the tick, of
\* fetchJobs, fetchStatus and fetchReview, and the error of any of them.
Msg(type, arg) == [type |-> type, arg |-> arg]
\* model.Update(msg): the new model and the command returned.  The index
\* of a Go slice starts at 0; indexing outside the slice panics.
Update(m, msg) ==
    LET same(cmd) == [m |-> m, cmd |-> cmd]
        toQueue == [m EXCEPT !.currentView = "viewQueue", !.currentReview = None,
                             !.reviewScroll = 0]
    IN
    IF msg.type = "KeyMsg"
    THEN IF msg.arg \in {"ctrl+c", "q"}
         THEN IF m.currentView = "viewReview"
              THEN [m |-> toQueue, cmd |-> "nil"]
              ELSE same("tea.Quit")
         ELSE IF msg.arg \in {"up", "k"}
         THEN IF m.currentView = "viewQueue"
              THEN [m |-> IF m.selectedIdx > 0
                          THEN [m EXCEPT !.selectedIdx = @ - 1] ELSE m,
                    cmd |-> "nil"]
              ELSE [m |-> IF m.reviewScroll > 0
                          THEN [m EXCEPT !.reviewScroll = @ - 1] ELSE m,
                    cmd |-> "nil"]
         ELSE IF msg.arg \in {"down", "j"}
         THEN IF m.currentView = "viewQueue"
              THEN [m |-> IF m.selectedIdx < Len(m.jobs) - 1
                          THEN [m EXCEPT !.selectedIdx = @ + 1] ELSE m,
                    cmd |-> "nil"]
              ELSE [m |-> [m EXCEPT !.reviewScroll = @ + 1], cmd |-> "nil"]
         ELSE IF msg.arg = "enter"
         THEN IF m.currentView = "viewQueue" /\ Len(m.jobs) > 0
              THEN IF m.selectedIdx + 1 \notin DOMAIN m.jobs
                   THEN same("panic")
                   ELSE IF m.jobs[m.selectedIdx + 1] = "done"
                   THEN same("fetchReview")
                   ELSE same("nil")
              ELSE same("nil")
         ELSE IF msg.arg = "esc"
         THEN [m |-> IF m.currentView = "viewReview" THEN toQueue ELSE m,
               cmd |-> "nil"]
         ELSE same("nil")
    ELSE IF msg.type = "WindowSizeMsg"
    THEN [m |-> [m EXCEPT !.width = msg.arg[1], !.height = msg.arg[2]], cmd |-> "nil"]
    ELSE IF msg.type = "tickMsg"
    THEN same("tea.Batch")
    ELSE IF msg.type = "jobsMsg"
    THEN [m |-> [m EXCEPT !.jobs = msg.arg,
                          !.selectedIdx = ClampSelected(@, Len(msg.arg))],
          cmd |-> "nil"]
    ELSE IF msg.type = "statusMsg"
    THEN [m |-> [m EXCEPT !.status = msg.arg], cmd |-> "nil"]
    ELSE IF msg.type = "reviewMsg"
    THEN [m |-> [m EXCEPT !.currentReview = msg.arg, !.currentView = "viewReview",
                          !.reviewScroll = 0],
          cmd |-> "nil"]
    ELSE [m |-> [m EXCEPT !.err = msg.arg], cmd |-> "nil"]

\* model.View(): which of the two views is rendered.
View(m) ==
    IF m.currentView = "viewReview" /\ m.currentReview # None
    THEN "renderReviewView"
    ELSE "renderQueueView"

\* The program hands a message to Update and runs the command it returns:
\* tea.Quit ends the program, fetchReview is under way until its message
\* comes in (a reviewMsg or the error "no review found" comes from such a
\* fetch only), the batch of the tick brings the next tickMsg, jobsMsg and
\* statusMsg.
UpdateCall(msg) ==
    /\ ~tui.quit /\ ~tui.panicked
    /\ LET u == Update(tui, msg)
           done == IF \/ msg.type = "reviewMsg"
                      \/ msg.type = "errMsg" /\ msg.arg = "no review found"
                   THEN 1 ELSE 0
           begun == IF u.cmd = "fetchReview" THEN 1 ELSE 0
       IN  /\ tui.cmds - done >= 0
           /\ tui.cmds - done + begun <= MaxPending
           /\ u.m.reviewScroll <= MaxScroll
           /\ tui' = [u.m EXCEPT !.cmds = tui.cmds - done + begun,
                                 !.quit = (u.cmd = "tea.Quit"),
                                 !.panicked = (u.cmd = "panic")]
    /\ UNCHANGED <<env, resolved, handshake, daemon>>
    /\ UNCHANGED backVars

\* The messages that come in: key presses, a resize, the tick, the answers
\* of fetchJobs and fetchStatus or their error, and the answer of a
\* fetchReview that is under way or its error.
NextTui ==
    \/ \E key \in Keys : UpdateCall(Msg("KeyMsg", key))
    \/ UpdateCall(Msg("WindowSizeMsg", <<80, 24>>))
    \/ UpdateCall(Msg("tickMsg", None))
    \/ \E list \in JobLists : UpdateCall(Msg("jobsMsg", list))
    \/ \E st \in {1, 2} : UpdateCall(Msg("statusMsg", st))
    \/ UpdateCall(Msg("reviewMsg", 1))
    \/ \E e \in {"fetch", "no review found"} : UpdateCall(Msg("errMsg", e))

\* The terminal client under every sequence of messages.
SpecTui == Init /\ [][NextTui]_vars

\* ================================================================ claims
Terminal(id) == id \in DOMAIN jobs /\ jobs[id].status \in {"done", "failed", "canceled"}

RunningOf(w) == {id \in DOMAIN jobs : jobs[id].status = "running" /\ jobs[id].workerId = w}

\* C1: whatever the interleaving of the workers' ClaimJob calls, no job id
\* is returned by ClaimJob more than once.
NoJobClaimedTwice == \A id \in JobIds : claimCount[id] <= 1

\* Two callers selected the same queued row; one has claimed it and the
\* other's transaction is still open on a stale snapshot.
RaceForSameJob ==
    \E w1 \in Workers, w2 \in Workers :
        /\ w1 # w2
        /\ pc[w1] = "claimed"
        /\ pc[w2] = "update"
        /\ job[w1] = job[w2]
        /\ stale[w2]

ReviewIffDone ==
    \A id \in DOMAIN jobs : HasReview(reviews, id) <=> jobs[id].status = "done"

\* C4: no worker id has more than one running job; a worker that is
\* processing has exactly one, a worker back at the top of its loop or in
\* its next ClaimJob call has none.
OneRunningJobPerWorker ==
    \A w \in Workers :
        /\ Cardinality(RunningOf(w)) <= 1
        /\ pc[w] \in {"claimed", "review"} => Cardinality(RunningOf(w)) = 1
        /\ pc[w] \in {"loop", "claim", "update"} => RunningOf(w) = {}

\* C5: a CompleteJob call on a job that is not running fails and changes
\* neither the job nor the reviews.
CompleteJobRequiresRunning ==
    [][ \A id \in JobIds, agent \in RegisteredAgents, output \in AgentOutputs,
           dbOk \in BOOLEAN :
            ( /\ id \in DOMAIN jobs
              /\ jobs[id].status # "running"
              /\ CompleteJobCall(id, agent, output, dbOk) )
            => /\ ~CompleteJobResult(jobs, reviews, id, agent, Prompt(id), output, now, dbOk).ok
               /\ UNCHANGED <<jobs, reviews>>
      ]_vars

\* C6: the job a ClaimJob call returns is the queued job with the smallest
\* enqueuedAt and, among those with that enqueuedAt, the smallest id.
ClaimsOldestThenSmallestId ==
    [][ \A w \in Callers, id \in JobIds :
            ClaimJobCall(w, id, TRUE)
            => \A k \in Queued(jobs) :
                   \/ jobs[id].enqueuedAt < jobs[k].enqueuedAt
                   \/ jobs[id].enqueuedAt = jobs[k].enqueuedAt /\ id <= k
      ]_vars

\* C7: Stop does not interrupt a job in progress: a worker exits only from
\* the top of its loop, holding no job, and once Stop has returned every
\* job whose agent returned an output after the stop signal is done and has
\* its review.
StopKeepsFinishedReview ==
    /\ \A w \in Workers : pc[w] = "exited" => job[w] = None
    /\ stopPc = "returned" =>
         \A id \in DOMAIN jobs :
             (agentOut[id] # <<>> /\ agentOut[id][1] = "output" /\ agentOut[id][3])
             => jobs[id].status = "done" /\ HasReview(reviews, id)

\* C8: when processJob returns, the job it was given is done or failed.
ProcessJobLeavesTerminal ==
    \A w \in Workers : pc[w] = "finish" => jobs[job[w]].status \in {"done", "failed"}

\* C9: once processJob has returned for a job, an agent output means the
\* job is done with a review carrying that output and the job's agent name;
\* an agent error means the job is failed, its error carries the agent's
\* error text, and it has no review.
AgentResultRecorded ==
    \A id \in DOMAIN jobs :
        agentOut[id] # <<>> =>
            IF agentOut[id][1] = "output"
            THEN /\ jobs[id].status = "done"
                 /\ \E k \in ReviewsOf(reviews, id) :
                        /\ reviews[k].output = agentOut[id][2]
                        /\ reviews[k].agent = jobs[id].agent
            ELSE /\ jobs[id].status = "failed"
                 /\ jobs[id].error = <<"agent", agentOut[id][2]>>
                 /\ ~HasReview(reviews, id)

\* C10: while the pool is not stopped, every enqueued job eventually reaches
\* a terminal status, and no job is handed to processJob twice.
EveryJobProcessedOnce ==
    /\ \A id \in JobIds : [](id \in DOMAIN jobs => <>(stopCh \/ Terminal(id)))
    /\ [](\A id \in JobIds : claimCount[id] <= 1)

\* C11: jobs are claimed in enqueue order: a job is never claimed while a
\* job enqueued before it (ids are given in enqueue order) is still queued.
ClaimedInEnqueueOrder ==
    [][ \A id \in DOMAIN jobs, k \in DOMAIN jobs :
            (k < id /\ jobs[id].status = "queued" /\ jobs'[id].status = "running")
            => jobs[k].status # "queued"
      ]_vars

\* C12: a job's finishedAt is set exactly when its status is terminal, and
\* when startedAt is set too, finishedAt is not earlier than startedAt.
FinishedAtIffTerminal ==
    \A id \in DOMAIN jobs :
        /\ (jobs[id].finishedAt # NullTime) <=> Terminal(id)
        /\ (jobs[id].finishedAt # NullTime /\ jobs[id].startedAt # NullTime)
               => jobs[id].startedAt <= jobs[id].finishedAt

\* A job that was claimed and later finished, the clock having moved on
\* in between.
FinishedAfterStarted ==
    \E id \in DOMAIN jobs :
        /\ Terminal(id)
        /\ jobs[id].startedAt # NullTime
        /\ jobs[id].startedAt < jobs[id].finishedAt

\* C13: job status follows the state machine: a job is created queued, the
\* only steps are queued -> running, running -> done or failed, and
\* queued or running -> canceled; a terminal status never changes again.
StatusStateMachine ==
    [][ /\ \A id \in DOMAIN jobs' \ DOMAIN jobs : jobs'[id].status = "queued"
        /\ \A id \in DOMAIN jobs :
              \/ jobs'[id].status = jobs[id].status
              \/ jobs[id].status = "queued" /\ jobs'[id].status \in {"running", "canceled"}
              \/ jobs[id].status = "running" /\ jobs'[id].status \in {"done", "failed", "canceled"}
      ]_vars

\* C14: a running job is never reclaimed: no step moves it back to queued,
\* returns it from ClaimJob again or changes its workerId or startedAt; and
\* a running job that no worker is processing stays exactly as it is.
Processing(id) == \E w \in Workers : job[w] = id /\ pc[w] \in {"claimed", "review"}

RunningJobNeverReclaimed ==
    [][ \A id \in DOMAIN jobs :
            jobs[id].status = "running" =>
                /\ jobs'[id].status # "queued"
                /\ jobs'[id].workerId = jobs[id].workerId
                /\ jobs'[id].startedAt = jobs[id].startedAt
                /\ claimCount'[id] = claimCount[id]
                /\ ~Processing(id) => jobs'[id] = jobs[id]
      ]_vars

\* A job is running, the worker that claimed it is back in ClaimJob, and
\* another job is queued for it to claim.
AbandonedRunningJob ==
    \E id \in DOMAIN jobs, k \in DOMAIN jobs, w \in Workers :
        /\ jobs[id].status = "running"
        /\ jobs[id].workerId = w
        /\ ~Processing(id)
        /\ pc[w] = "update"
        /\ job[w] = k
        /\ jobs[k].status = "queued"

\* C15: a store call that returns an error leaves the tables as they were:
\* ClaimJob, CompleteJob (a store error, or the review INSERT failing
\* because the job has a review) and FailJob.
ErrorLeavesStoreUnchanged ==
    [][ /\ \A w \in Callers : ClaimJobCall(w, None, FALSE) => UNCHANGED <<jobs, reviews>>
        /\ \A id \in JobIds, agent \in RegisteredAgents, output \in AgentOutputs,
              dbOk \in BOOLEAN :
              ( /\ id \in DOMAIN jobs
                /\ ~CompleteJobResult(jobs, reviews, id, agent, Prompt(id), output, now, dbOk).ok
                /\ CompleteJobCall(id, agent, output, dbOk) )
              => UNCHANGED <<jobs, reviews>>
        /\ \A id \in JobIds, text \in AgentErrors :
              FailJobCall(id, <<"agent", text>>, FALSE) => UNCHANGED <<jobs, reviews>>
      ]_vars

\* A job that has a review and is no longer done, at a later second than
\* its finishedAt: a CompleteJob on it fails at the INSERT, and an UPDATE
\* that stayed would show.
CompleteJobInsertWouldFail ==
    \E id \in DOMAIN jobs :
        /\ HasReview(reviews, id)
        /\ jobs[id].status = "failed"
        /\ jobs[id].finishedAt < now

\* C16: a ClaimJob that meets no queued job returns no job and no error and
\* changes nothing; a successful ClaimJob returns a queued job, sets its
\* status to running, its workerId to the caller and its startedAt to the
\* time of the call, and leaves every other job and every review as it was.
ClaimJobFrame ==
    [][ \A w \in Callers :
          /\ Queued(jobs) = {} =>
                /\ \A id \in JobIds : ~ClaimJobCall(w, id, TRUE)
                /\ ClaimJobCall(w, None, TRUE) => UNCHANGED <<jobs, reviews>>
          /\ \A id \in JobIds :
                ClaimJobCall(w, id, TRUE) =>
                    /\ jobs[id].status = "queued"
                    /\ jobs'[id] = [jobs[id] EXCEPT !.status = "running",
                                                    !.workerId = w,
                                                    !.startedAt = now]
                    /\ \A k \in DOMAIN jobs \ {id} : jobs'[k] = jobs[k]
                    /\ DOMAIN jobs' = DOMAIN jobs
                    /\ reviews' = reviews
      ]_vars

\* One job has been claimed while another stayed queued.
ClaimedOneOfTwo ==
    \E id \in DOMAIN jobs, k \in DOMAIN jobs :
        /\ jobs[id].status = "running"
        /\ jobs[id].workerId \in Callers
        /\ jobs[id].startedAt # NullTime
        /\ jobs[k].status = "queued"
        /\ jobs[k].workerId = None

\* C17: AddCommentToJob fails exactly when no job has the id it names, and
\* then inserts nothing; on an existing job, whatever its status and with
\* or without a review, it succeeds and inserts the comment.
AddCommentFailsIffNoJob ==
    [][ \A id \in CallerJobIds, responder \in Responders, response \in CommentTexts :
            AddCommentToJobCall(id, responder, response) =>
                LET r == AddCommentResult(jobs, comments, id, responder, response)
                IN /\ r.ok <=> id \in DOMAIN jobs
                   /\ ~r.ok => comments' = comments
                   /\ r.ok => /\ Len(comments') = Len(comments) + 1
                              /\ comments'[Len(comments')] = NewComment(comments, id, responder, response)
                              /\ SubSeq(comments', 1, Len(comments)) = comments
      ]_vars

\* Comments stand on a job that has no review and is not done and on a job
\* that has one.
CommentsWithAndWithoutReview ==
    \E a \in DOMAIN comments, b \in DOMAIN comments :
        /\ comments[a].jobId \in DOMAIN jobs
        /\ comments[b].jobId \in DOMAIN jobs
        /\ jobs[comments[a].jobId].status \in {"queued", "running", "canceled"}
        /\ ~HasReview(reviews, comments[a].jobId)
        /\ jobs[comments[b].jobId].status \in {"done", "failed"}
        /\ HasReview(reviews, comments[b].jobId)

\* C18: comments are append-only: no step removes or changes a stored
\* comment, a job takes any number of them, and GetCommentsForJob returns
\* every comment of the job, in the order they were added.
IsPrefix(s, t) == Len(s) <= Len(t) /\ SubSeq(t, 1, Len(s)) = s

CommentsAppendOnly ==
    [][ /\ IsPrefix(comments, comments')
        /\ \A id \in CallerJobIds :
              /\ IsPrefix(GetCommentsForJob(comments, id), GetCommentsForJob(comments', id))
              /\ Len(GetCommentsForJob(comments', id))
                    = Cardinality({k \in DOMAIN comments' : comments'[k].jobId = id})
              /\ \A responder \in Responders, response \in CommentTexts :
                    (id \in DOMAIN jobs /\ AddCommentToJobCall(id, responder, response))
                    => GetCommentsForJob(comments', id)
                         = Append(GetCommentsForJob(comments, id),
                                  NewComment(comments, id, responder, response))
      ]_vars

\* One job has two comments, the older one first.
TwoCommentsOnOneJob ==
    \E id \in DOMAIN jobs :
        LET cs == GetCommentsForJob(comments, id)
        IN /\ Len(cs) >= 2
           /\ cs[1].id < cs[2].id

\* C19: ListJobs returns its rows in strictly decreasing enqueuedAt order,
\* whatever the store holds.
ListJobsStrictlyDecreasing ==
    \A statusFilter \in StatusFilters, limit \in Limits :
        \A rows \in ListJobs(jobs, statusFilter, limit) :
            \A a, b \in DOMAIN rows :
                a < b => jobs[rows[a]].enqueuedAt > jobs[rows[b]].enqueuedAt

\* C19 as amended: ListJobs returns its rows in non-increasing enqueuedAt
\* order: no row is followed by a row enqueued later, and rows with the
\* same enqueuedAt come in any order.
ListJobsNewestFirst ==
    \A statusFilter \in StatusFilters, limit \in Limits :
        \A rows \in ListJobs(jobs, statusFilter, limit) :
            \A a, b \in DOMAIN rows :
                a < b => jobs[rows[a]].enqueuedAt >= jobs[rows[b]].enqueuedAt

\* The store holds two jobs enqueued in different seconds, and ListJobs
\* lists the later one first.
ListsTwoJobsNewestFirst ==
    \E rows \in ListJobs(jobs, "", 0) :
        /\ Len(rows) = 2
        /\ jobs[rows[1]].enqueuedAt > jobs[rows[2]].enqueuedAt

\* C20: GetJobCounts returns, for queued, running, done and failed, the
\* number of jobs in the store with that status, and 0 for a status no job
\* has.
WithStatus(st) == {i \in DOMAIN jobs : jobs[i].status = st}

JobCountsExact ==
    /\ GetJobCounts(jobs).queued = Cardinality(WithStatus("queued"))
    /\ GetJobCounts(jobs).running = Cardinality(WithStatus("running"))
    /\ GetJobCounts(jobs).done = Cardinality(WithStatus("done"))
    /\ GetJobCounts(jobs).failed = Cardinality(WithStatus("failed"))

\* The store holds a done job and a failed job and none queued or running.
CountsOneDoneOneFailed ==
    /\ GetJobCounts(jobs).done = 1
    /\ GetJobCounts(jobs).failed = 1
    /\ GetJobCounts(jobs).queued = 0
    /\ GetJobCounts(jobs).running = 0
    /\ Len(jobs) = 2

\* C21: GetOrCreateRepo is idempotent on the normalized absolute path.  At
\* most one repo row holds a path; a successful call returns the row of the
\* normalized path it was given, so two successful calls for the same path
\* return the same id; a call that finds the path stored returns that row and
\* writes nothing; and no step removes or changes a repo row.
RepoOfPath(absPath) == {i \in 1..Len(repos) : repos[i].rootPath = absPath}
GetOrCreateRepoIdempotent ==
    /\ [](/\ \A absPath \in {Abs(p) : p \in RawPaths} :
                Cardinality(RepoOfPath(absPath)) <= 1
          /\ \A c \in Clients :
                (ret[c].op = "repo" /\ ret[c].ok)
                    => /\ ret[c].row.id \in RepoOfPath(Abs(ret[c].input))
                       /\ ret[c].row = repos[ret[c].row.id]
          /\ \A c, d \in Clients :
                (/\ ret[c].op = "repo" /\ ret[c].ok
                 /\ ret[d].op = "repo" /\ ret[d].ok
                 /\ Abs(ret[c].input) = Abs(ret[d].input))
                    => ret[c].row.id = ret[d].row.id)
    /\ [][/\ IsPrefix(repos, repos')
          /\ \A c \in Clients, p \in RawPaths :
                (GetOrCreateRepoSelect(c, p, FALSE) /\ RepoOfPath(Abs(p)) # {})
                    => /\ ret'[c].op = "repo" /\ ret'[c].ok
                       /\ ret'[c].row.id \in RepoOfPath(Abs(p))
                       /\ repos' = repos]_vars
\* Two callers hold the same row for two spellings of one path, and a second
\* path has a row of its own.
TwoSpellingsOneRepo ==
    /\ Len(repos) = 2
    /\ ret[1].op = "repo" /\ ret[1].ok
    /\ ret[2].op = "repo" /\ ret[2].ok
    /\ ret[1].input # ret[2].input
    /\ Abs(ret[1].input) = Abs(ret[2].input)
    /\ ret[1].row.id = ret[2].row.id

\* C22: GetOrCreateCommit is idempotent on the sha alone.  A call whose sha
\* is stored returns the stored commit, its id and the fields of its first
\* creation, whatever repoId, author, subject and timestamp the call passes,
\* and writes nothing; at most one commit holds a sha, a successful return
\* names the row of its sha, and no step changes or removes a stored commit.
CommitOfSha(sha) == {i \in 1..Len(commits) : commits[i].sha = sha}
GetOrCreateCommitIdempotent ==
    /\ [](/\ \A in \in CommitInputs : Cardinality(CommitOfSha(in.sha)) <= 1
          /\ \A c \in Clients :
                (ret[c].op = "commit" /\ ret[c].ok)
                    => ret[c].row.id \in CommitOfSha(ret[c].input.sha))
    /\ [][/\ IsPrefix(commits, commits')
          /\ \A c \in Clients, in \in CommitInputs :
                (GetOrCreateCommitSelect(c, in, FALSE) /\ CommitOfSha(in.sha) # {})
                    => /\ ret'[c].op = "commit" /\ ret'[c].ok
                       /\ \E i \in CommitOfSha(in.sha) :
                             ret'[c].row = ScanCommit(commits[i])
                       /\ commits' = commits]_vars
\* A second call passed the sha with another repoId, author, subject and
\* timestamp and got the commit as first stored.
SecondCallGetsFirstCommit ==
    \E c \in Clients :
        /\ ret[c].op = "commit" /\ ret[c].ok
        /\ ret[c].input.repoId # ret[c].row.repoId
        /\ ret[c].input.author # ret[c].row.author
        /\ ret[c].input.subject # ret[c].row.subject
        /\ ret[c].input.timestamp # ret[c].row.timestamp
        /\ Len(commits) = 2

\* C23: every successful EnqueueJob is followed at once by a GetJobByID of
\* the returned id that succeeds and returns the same repoId, commitId and
\* agent, status queued, and no startedAt, finishedAt, workerId or error.
EnqueueThenGetJobByID ==
    [][\A repoId \in RepoIdArgs, commitId \in CommitIdArgs, agent \in AgentNames :
          EnqueueJobCall(repoId, commitId, agent)
              => LET got == GetJobByID(jobs', repos', commits', Len(jobs'))
                 IN  /\ got.ok
                     /\ got.job.repoId = repoId
                     /\ got.job.commitId = commitId
                     /\ got.job.agent = agent
                     /\ got.job.status = "queued"
                     /\ got.job.startedAt = NullTime
                     /\ got.job.finishedAt = NullTime
                     /\ got.job.workerId = None
                     /\ got.job.error = NullError]_vars

\* C24: WithModel, WithReasoning and WithAgentic never mutate the agent they
\* are called on, nor any other agent: each returns a newly allocated agent
\* that differs from the receiver in the one field set at most, and
\* WithModel("") returns the receiver itself and allocates nothing.
AgentsUntouched == \A b \in AgentPtrs : agents'[b] = agents[b]
FreshCopy(ptr) == ptr \notin AgentPtrs /\ ptr \in DOMAIN agents'
WithNeverMutates ==
    [][\A a \in AgentPtrs :
          /\ \A model \in Models :
                WithModel(a, model)
                    => /\ AgentsUntouched
                       /\ IF model = ""
                          THEN withRet'.result = a /\ agents' = agents
                          ELSE /\ FreshCopy(withRet'.result)
                               /\ agents'[withRet'.result] =
                                      [agents[a] EXCEPT !.Model = model]
          /\ \A level \in ReasoningLevels :
                WithReasoning(a, level)
                    => /\ AgentsUntouched
                       /\ FreshCopy(withRet'.result)
                       /\ agents'[withRet'.result] =
                              [agents[a] EXCEPT !.Reasoning = level]
          /\ \A agentic \in BOOLEAN :
                WithAgentic(a, agentic)
                    => /\ AgentsUntouched
                       /\ FreshCopy(withRet'.result)
                       /\ agents'[withRet'.result] =
                              [agents[a] EXCEPT !.Agentic = agentic]]_vars
\* The registry's agent is as constructed after a copy with a model was made
\* of it, a copy of that copy changed another field, and WithModel("") then
\* returned its receiver.
CopiesMadeRegistryAgentIntact ==
    /\ agents[1] = NewOllamaAgent("")
    /\ Len(agents) = 3
    /\ agents[2].Model = "llama3:70b"
    /\ agents[3].Model = "llama3:70b" /\ agents[3].Agentic
    /\ withRet.op = "WithModel" /\ withRet.arg = ""
    /\ withRet.result = withRet.recv

\* What the claims about parseStream say of a body, computed from the body
\* alone: the valid lines, the first line with done = true, and the
\* concatenation of the content of the valid lines up to and including it.
IsValid(line) == line.kind = "json"
HasDone(s) == \E i \in 1..Len(s) : IsValid(s[i]) /\ s[i].done
FirstDone(s) ==
    IF HasDone(s)
    THEN CHOOSE i \in 1..Len(s) :
             /\ IsValid(s[i]) /\ s[i].done
             /\ \A k \in 1..(i - 1) : ~(IsValid(s[k]) /\ s[k].done)
    ELSE Len(s)
RECURSIVE Concatenation(_)
Concatenation(s) ==
    IF s = <<>> THEN <<>>
    ELSE (IF IsValid(Head(s)) THEN Head(s).content ELSE <<>>) \o Concatenation(Tail(s))
ContentUpToDone(s) == Concatenation(SubSeq(s, 1, FirstDone(s)))
Succeeded == review.op = "returned" /\ review.err = NoError

\* C25 as stated: for every stream of lines parseStream returns the
\* concatenation, in order, of the content of the valid lines up to and
\* including the first line with done = true, and reads no line after it.
ParseStreamReturnsConcatenation ==
    /\ Succeeded => review.text = ContentUpToDone(review.stream)
    /\ (review.op \in {"scan", "returned"} /\ HasDone(review.stream))
           => review.pos <= FirstDone(review.stream)
\* C25 amended: a parseStream that returns without error returns that
\* concatenation, or the literal "No review output generated" when the
\* concatenation is empty; it reads no line after the first done line.
ParseStreamReturnsConcatenationOrLiteral ==
    /\ Succeeded
           => review.text = IF ContentUpToDone(review.stream) = <<>>
                            THEN NoOutput
                            ELSE ContentUpToDone(review.stream)
    /\ (review.op \in {"scan", "returned"} /\ HasDone(review.stream))
           => review.pos <= FirstDone(review.stream)
\* A body with two content lines, then the done line carrying content, then
\* a further content line: the result is the three contents in order.
StoppedAtDoneBeforeMoreContent ==
    /\ Succeeded
    /\ Len(review.stream) = 4
    /\ FirstDone(review.stream) = 3
    /\ IsValid(review.stream[4]) /\ review.stream[4].content # <<>>
    /\ review.text = <<"b", "a", "c">>

\* C26: a line that fails to parse is skipped, without an error and with the
\* accumulated result and the sink as they were, unless no valid line has
\* been seen and it is the fifth malformed line: then, and only then, the
\* call fails as non-JSON.  After a valid line no malformed line fails it.
MalformedUpTo(s, n) == Cardinality({i \in 1..n : s[i].kind = "text"})
ValidBefore(s, n) == \E i \in 1..(n - 1) : IsValid(s[i])
MalformedLineSkippedUnlessNonJSON ==
    [][(ScanLine /\ review.stream[review.pos].kind = "text")
          => IF /\ ~ValidBefore(review.stream, review.pos)
                /\ MalformedUpTo(review.stream, review.pos) >= MalformedLimit
             THEN /\ review'.op = "returned"
                  /\ review'.err.class = "non-json"
                  /\ MalformedUpTo(review.stream, review.pos) = MalformedLimit
             ELSE /\ review'.op = "scan"
                  /\ review'.pos = review.pos + 1
                  /\ review'.err = NoError
                  /\ review'.result = review.result
                  /\ review'.written = review.written]_vars
\* A valid line, then six malformed lines, then the done line: success.
SixMalformedAfterValidLine ==
    /\ Succeeded
    /\ MalformedUpTo(review.stream, Len(review.stream)) > MalformedLimit
    /\ IsValid(review.stream[1])
    /\ review.text = <<"a", "c">>

\* C27: a stream that reaches done = true with nothing accumulated succeeds
\* with the literal "No review output generated" and no error, and a
\* successful call returns the literal only when nothing was accumulated
\* (otherwise it returns what was accumulated).
EmptyResponseGivesLiteral ==
    /\ [](Succeeded => /\ review.text = NoOutput <=> review.result = <<>>
                       /\ review.result # <<>> => review.text = review.result)
    /\ [][(/\ ScanLine
           /\ IsValid(review.stream[review.pos])
           /\ review.stream[review.pos].done
           /\ review.stream[review.pos].error = ""
           /\ review.result \o review.stream[review.pos].content = <<>>)
              => /\ review'.op = "returned"
                 /\ review'.err = NoError
                 /\ review'.text = NoOutput]_vars
\* A malformed line, an empty line and then the done line without content.
DoneWithNothingAccumulated ==
    /\ Succeeded
    /\ review.text = NoOutput
    /\ Len(review.stream) >= 3
    /\ review.pos = 3
    /\ review.stream[3].done
    /\ review.stream[1].kind = "text"
    /\ review.stream[2].kind = "blank"

\* C28 as stated: with a progress sink, the bytes forwarded to the sink
\* always equal the result accumulated so far, each non-empty content chunk
\* being written once, in order, at the step it is accumulated; so on
\* success the sink holds exactly the returned review text.
ChunkForwardedWhenAccumulated ==
    [][(/\ ScanLine
        /\ review.output # "nil"
        /\ IsValid(review.stream[review.pos])
        /\ review.stream[review.pos].error = "")
           => review'.forwarded =
                  review.forwarded \o review.stream[review.pos].content]_vars
SinkHoldsReturnedText ==
    /\ []((review.op \in {"scan", "returned"} /\ review.output # "nil")
             => /\ review.forwarded = review.result
                /\ Succeeded => review.written = review.text)
    /\ ChunkForwardedWhenAccumulated
\* C28 amended: the same, but on success the sink holds exactly the
\* accumulated result, which is the returned text unless it is empty: then
\* the sink holds nothing and the literal is returned.
SinkHoldsAccumulatedResult ==
    /\ []((review.op \in {"scan", "returned"} /\ review.output # "nil")
             => /\ review.forwarded = review.result
                /\ Succeeded
                       => /\ review.written = review.result
                          /\ IF review.result = <<>>
                             THEN review.text = NoOutput
                             ELSE review.written = review.text)
    /\ ChunkForwardedWhenAccumulated
\* Two chunks and the done line's own chunk reached the sink in order.
SinkHoldsThreeChunks ==
    /\ Succeeded
    /\ review.output = "buffer"
    /\ review.written = <<"a", "b", "c">>
    /\ review.text = review.written

\* C29: when the server answers 404 to every request, Review fails with the
\* model-not-found error, whose message contains "not found" and the hint
\* "ollama pull" followed by the requested model.
NotFoundOnEveryRequest ==
    (/\ review.op = "returned"
     /\ review.health.kind = "http" /\ review.health.status = 404
     /\ review.chat.kind = "http" => review.chat.status = 404)
        => /\ review.err.class = "model-not-found"
           /\ IsInfix(<<"not", "found.">>, review.err.msg)
           /\ IsInfix(<<"ollama", "pull", review.model>>, review.err.msg)

\* C30: classifyError gives every failure of the chat request its class: a
\* 404 is model-not-found, every status from 500 to 599 is server-error with
\* the status in the message, a refused connection is server-unreachable
\* with the URL, an exceeded deadline is timeout; the class of a response
\* with a status does not depend on its body.
ClassifyErrorClasses ==
    (review.op = "returned" /\ review.chat # NoResponse)
        => /\ (review.chat.kind = "http" /\ review.chat.status = 404)
                  => review.err.class = "model-not-found"
           /\ (review.chat.kind = "http" /\ review.chat.status \in 500..599)
                  => /\ review.err.class = "server-error"
                     /\ IsInfix(<<ToString(review.chat.status)>>, review.err.msg)
           /\ (review.chat.kind = "error" /\ review.chat.deadline)
                  => review.err.class = "timeout"
           /\ (/\ review.chat.kind = "error" /\ ~review.chat.deadline
               /\ IsInfix(<<"connection", "refused">>, review.chat.msg))
                  => /\ review.err.class = "server-unreachable"
                     /\ IsInfix(<<review.BaseURL>>, review.err.msg)

\* ---------------------------------------------------------------- C31
\* The error CheckHealth returns for the answer resp to GET /api/tags.
ProbeError(r, resp) ==
    IF resp.kind = "error"
    THEN classifyError(r, resp.deadline, resp.msg, 0, "")
    ELSE Errorf("health-check-failed",
                <<"ollama", "server", "health", "check", "failed",
                  "with", "status", ToString(resp.status)>>)
ProbeFailed(resp) == resp.kind = "error" \/ (resp.kind = "http" /\ resp.status # 200)

HasScheme(value) ==
    \E i \in 2..Len(value) :
        /\ value[i] = ":"
        /\ value[1] \in Letters
        /\ \A j \in 2..(i - 1) : value[j] \in Letters \cup Digits \cup {"+", "-", "."}
FirstAvailable(cfg, value) ==
    IF cfg.kind = "getter" /\ cfg.url # <<>> THEN cfg.url
    ELSE IF value # <<>>
    THEN IF HasScheme(value) THEN value ELSE <<"h", "t", "t", "p", ":", "/", "/">> \o value
    ELSE defaultBaseURL

\* C32: ResolveOllamaBaseURL returns, for every configuration and every
\* value of OLLAMA_HOST, the first available of: the non-empty configuration
\* field, the non-empty OLLAMA_HOST value with http:// prepended when it has
\* no scheme, the default http://localhost:11434; a nil config and an empty
\* config field fall through to the environment variable.
ResolvesFirstAvailable ==
    resolved.op = "resolve" =>
        resolved.url = FirstAvailable(resolved.cfg, resolved.env)

\* ---------------------------------------------------------------- C33
\* A daemon is running: the handshake file is present, its PID is alive and
\* its port answers GET /api/status.
Running(h) ==
    /\ h # NoFile
    /\ h.pid \in Daemons
    /\ daemon[h.pid].pc = "serving"
    /\ daemon[h.pid].port = h.port
\* Daemon process d takes a step of its own accord.
Steps(d) == daemon'[d] # daemon[d] /\ daemon'[d].why # "killed"

\* C33: while a daemon is running, a second daemon that starts refuses to
\* start, exits successfully and leaves the handshake file unchanged: its
\* start and its read of the file write nothing, the read sees the running
\* daemon's file, and its probe of what it read ends it with exit code 0
\* and writes nothing.
SecondDaemonRefuses ==
    [][\A d \in Daemons :
         (/\ Running(handshake) /\ handshake.pid # d /\ Steps(d)
          /\ \/ daemon[d].pc \in {"off", "read"}
             \/ daemon[d].pc = "probe" /\ daemon[d].seen = handshake) =>
            /\ handshake' = handshake
            /\ daemon[d].pc = "off" => daemon'[d].pc = "read"
            /\ daemon[d].pc = "read" =>
                 daemon'[d].pc = "probe" /\ daemon'[d].seen = handshake
            /\ (daemon[d].pc = "probe" /\ daemon[d].seen = handshake) =>
                 /\ daemon'[d].pc = "exited"
                 /\ daemon'[d].exit = 0
                 /\ daemon'[d].why = "refused"]_vars

\* The second daemon has refused to start and the first still serves under
\* its own handshake file.
SecondDaemonExitedFirstServes ==
    \E a, b \in Daemons :
        /\ a # b
        /\ daemon[a].pc = "serving"
        /\ handshake = Handshake(a, daemon[a].port, 0)
        /\ daemon[b].pc = "exited" /\ daemon[b].exit = 0 /\ daemon[b].why = "refused"
        /\ daemon[b].seen = handshake

\* ---------------------------------------------------------------- C34
\* C34: once the stop channel is closed no ClaimJob call moves a job to
\* running, in every interleaving of Stop with the worker loops: a worker
\* at most finishes the job it holds and exits.
NoClaimAfterStop ==
    [][stopCh => \A id \in DOMAIN jobs :
                    jobs[id].status = "queued" => jobs'[id].status # "running"]_vars

\* ---------------------------------------------------------------- C35
\* C35: Stop terminates.  Once the stop channel is closed, under fair
\* scheduling and with every agent call returning, every worker eventually
\* observes the signal and exits and Stop returns; and Stop returns only
\* after all workers have exited.
StopTerminates ==
    /\ stopCh ~> (\A w \in Workers : pc[w] = "exited")
    /\ stopCh ~> (stopPc = "returned")
    /\ [](stopPc = "returned" => (wg = 0 /\ \A w \in Workers : pc[w] = "exited"))

\* Stop has returned after a worker had to finish a job first: the agent
\* returned its output when the channel was already closed.
StopReturnedAfterLastJob ==
    /\ stopPc = "returned"
    /\ \A w \in Workers : pc[w] = "exited"
    /\ \E id \in DOMAIN jobs :
           /\ jobs[id].status = "done"
           /\ agentOut[id] # <<>> /\ agentOut[id][3]

\* ---------------------------------------------------------------- C36
\* C36: a worker leaves its loop only because the stop signal was given.
\* An empty queue and a store error from ClaimJob lead back to the top of
\* the loop, a claimed job goes through processJob and, whatever error it
\* meets, back to the top of the loop, and from there an open stop channel
\* leads to another claim attempt; so every worker is live, and the
\* WaitGroup counts all of them, until Stop.
WorkerLeavesOnlyOnStop ==
    /\ [](~stopCh => (wg = NumWorkers /\ \A w \in Workers : pc[w] # "exited"))
    /\ [][\A w \in Workers :
            pc'[w] # pc[w] =>
               /\ pc'[w] = "exited" => (stopCh /\ pc[w] = "loop")
               /\ (pc[w] = "loop" /\ ~stopCh) => pc'[w] = "claim"
               /\ pc[w] = "claim" => pc'[w] \in {"loop", "update"}
               /\ pc[w] = "update" => pc'[w] \in {"loop", "claimed"}
               /\ pc[w] = "claimed" => pc'[w] \in {"review", "finish"}
               /\ pc[w] = "review" => pc'[w] = "finish"
               /\ pc[w] = "finish" => pc'[w] = "loop"]_vars

\* After a store error and a failed job every worker is at its next claim
\* attempt, and no one has called Stop.
AllWorkersClaimAgainAfterErrors ==
    /\ ~stopCh
    /\ faults = MaxFaults
    /\ \E id \in DOMAIN jobs : jobs[id].status = "failed"
    /\ \A w \in Workers : pc[w] = "claim" /\ job[w] = None

\* ---------------------------------------------------------------- C37
\* No daemon process has been shut down or killed: the processes that were
\* started have only run the startup protocol.
OnlyStartups == \A d \in Daemons : daemon[d].why \notin {"shutdown", "killed"}

\* C37: single-instance enforcement holds for concurrent startups.  In any
\* interleaving of daemons running the startup protocol (read the handshake
\* file, probe, select a port, bind, write the handshake file) at most one
\* of them ends up serving, and the handshake file always names a daemon
\* that is serving.
SingleInstance ==
    OnlyStartups =>
        /\ Cardinality({d \in Daemons : daemon[d].pc = "serving"}) <= 1
        /\ handshake # NoFile =>
             /\ daemon[handshake.pid].pc = "serving"
             /\ daemon[handshake.pid].port = handshake.port

\* ---------------------------------------------------------------- C38
\* The workers between activeWorkers.Add(1) and activeWorkers.Add(-1), the
\* two statements around the call of processJob.
InProcessJob == {w \in Workers : pc[w] \in {"review", "finish"}}

\* C38: the active-worker counter always equals the number of workers
\* inside processJob; it is never negative, never exceeds the pool size,
\* and is 0 whenever every worker is idle or has exited, in particular
\* after Stop has returned.
ActiveWorkersCountsProcessing ==
    /\ activeWorkers = Cardinality(InProcessJob)
    /\ activeWorkers >= 0
    /\ activeWorkers <= NumWorkers
    /\ (\A w \in Workers : pc[w] \in {"loop", "claim", "update", "claimed", "exited"})
          => activeWorkers = 0
    /\ stopPc = "returned" => activeWorkers = 0

\* Every worker of the pool is inside processJob at once.
AllWorkersActive ==
    /\ activeWorkers = NumWorkers
    /\ \A w \in Workers : pc[w] = "review"

\* ---------------------------------------------------------------- C39
\* parseStream has returned on a body that ended (the scanner met no read
\* error) without a line carrying done = true.
EndedWithoutDone ==
    /\ review.op = "returned"
    /\ ~HasDone(review.stream)
    /\ review.err.class # "read-stream"
\* What a successful parseStream returns for the body s.
AccumulatedOrLiteral(s) ==
    IF Concatenation(s) = <<>> THEN NoOutput ELSE Concatenation(s)
\* The body has no line with an error field, does not begin with
\* MalformedLimit malformed lines before any valid one, and the output
\* writer takes what is written to it.
NoErrorReturn(s, output) ==
    /\ \A i \in 1..Len(s) : IsValid(s[i]) => s[i].error = ""
    /\ ~\E n \in 1..Len(s) :
           /\ s[n].kind = "text"
           /\ ~ValidBefore(s, n)
           /\ MalformedUpTo(s, n) >= MalformedLimit
    /\ output = "broken" => Concatenation(s) = <<>>

\* C39 as stated: a response stream that ends without any line carrying
\* done = true is treated by parseStream as a successful review: it returns
\* the content accumulated so far with no error, and the literal "No review
\* output generated" when nothing was accumulated.
EndWithoutDoneIsSuccess ==
    EndedWithoutDone =>
        /\ review.err = NoError
        /\ review.text = AccumulatedOrLiteral(review.stream)

\* C39 amended: a response stream that ends without any line carrying
\* done = true, and that has no error line, does not begin with five
\* malformed lines before any valid one and whose content the output writer
\* takes, is treated by parseStream as a successful review: it returns the
\* content accumulated so far with no error, and the literal when nothing
\* was accumulated.
EndWithoutDoneIsSuccessUnlessError ==
    (EndedWithoutDone /\ NoErrorReturn(review.stream, review.output)) =>
        /\ review.err = NoError
        /\ review.text = AccumulatedOrLiteral(review.stream)
        /\ review.pos = Len(review.stream) + 1

\* A body of four malformed lines and nothing else: the literal, no error.
FourMalformedLinesGiveLiteral ==
    /\ review.op = "returned"
    /\ review.stream = Repeat(Malformed, MalformedLimit - 1)
    /\ review.err = NoError
    /\ review.text = NoOutput

\* ---------------------------------------------------------------- C40
\* C40: in the TUI model, after any sequence of key, tick, jobs, status,
\* review and error messages, selectedIdx stays within the job list (0 when
\* the list is empty, otherwise between 0 and len(jobs)-1), so that the
\* index used on enter is always valid; reviewScroll is never negative; and
\* the view is the review view only while currentReview is set.
TuiIndexAndViewValid ==
    /\ IF Len(tui.jobs) = 0
       THEN tui.selectedIdx = 0
       ELSE tui.selectedIdx \in 0..(Len(tui.jobs) - 1)
    /\ ~tui.panicked
    /\ tui.reviewScroll >= 0
    /\ View(tui) = "renderReviewView" => tui.currentReview # None
    /\ tui.currentView = "viewReview" => tui.currentReview # None

\* The last job of a full list is selected and its review is shown,
\* scrolled down as far as the bound lets it, after an earlier fetch of a
\* review had failed.
ReviewShownForLastJob ==
    /\ Len(tui.jobs) = MaxListed
    /\ tui.selectedIdx = MaxListed - 1
    /\ tui.jobs[MaxListed] = "done"
    /\ tui.err = "no review found"
    /\ View(tui) = "renderReviewView"
    /\ tui.reviewScroll = MaxScroll

====
